---- MODULE Spec2Model ----
(***************************************************************************)
(* Verification model of the Mixed-Reality demos: the MarbleShooter pool,  *)
(* the marble and Galaga game loops, the AR session / hit-test handles of  *)
(* the demo variants and the party environment's placement bookkeeping.    *)
(*                                                                         *)
(* Geometry and physics are external (three.js, cannon-es); the model      *)
(* keeps what the bookkeeping code reads from them: whether a body fell    *)
(* below the floor threshold, and centre distances in centimetres.         *)
(***************************************************************************)
EXTENDS Integers, Sequences, FiniteSets, TLC

(***************************************************************************)
(* Bounds of the model                                                     *)
(***************************************************************************)
\* MarbleShooter.maxMarbles, the pool capacity C (20 in the source; the
\* claims about it are stated for every capacity, the model runs a small one)
maxMarbles == 2
\* argument of prewarmMarblePool in the constructor (8 in the source)
prewarmCount == 1
\* number of marble objects createNewMarble may allocate in one run
MaxMarbleObjects == 3
\* number of clock advances in one run
MaxTicks == 2
\* Date.now() when the page is loaded
StartTime == 100000
\* number of AR sessions started in one run
MaxSessions == 2
\* numbers of Player, Enemy, Projectile and Target objects created in one run
MaxPlayerObjects == 2
MaxEnemyObjects == 4
MaxProjectileObjects == 2
MaxTargetObjects == 2
\* largest level reached in one run
MaxLevel == 2
\* the lives of a new game (3 in the source)
initialLives == 1
\* largest coordinate (centimetres) of a sphere centre in a collision check
MaxCoord == 13
\* MAX_PARTY_ELEMENTS of the party environment (10 in the source; the model
\* runs a capacity just above the three sample elements)
MAX_PARTY_ELEMENTS == 4
\* number of party elements created in one run
MaxElementObjects == 5
\* number of clicks on the start button in one run
MaxStartActions == 2
\* spawnEnemyWave on its own: largest level, largest enemiesPerWave and
\* longest enemy list it is called with
MaxSpawnLevel == 6
MaxWaveSize == 4
MaxEnemyList == 21
\* longest partyElements list handed to manageMemory
MaxListLen == 6
\* largest createdAt of such a list, in milliseconds after StartTime
MaxAge == 2

(***************************************************************************)
(* Program constants                                                       *)
(***************************************************************************)
marbleLifetime == 10000
\* Projectile.lifespan
projectileLifespan == 2000
\* collision radii in centimetres: Projectile.radius 0.02, Enemy.radius 0.1,
\* Player.radius 0.1, Target.radius 0.1, MarbleShooter.marbleRadius 0.02
projectileRadius == 2
enemyRadius == 10
playerRadius == 10
targetRadius == 10
marbleRadius == 2
\* Galaga App: maxEnemies, the initial enemiesPerWave, the score of a kill
\* per level, Player.fireRate
maxEnemies == 20
initialEnemiesPerWave == 5
killScore == 100
playerFireRate == 300
\* marble App: maxTargets, the score of a target
maxTargets == 5
targetScore == 10
\* party environment, in tenths of a unit: the scale createPartyElement gives
\* an element placed by a matrix, and the distance, the least height and the
\* drop below the camera of part_002's placement without a reticle
elementScale == 5
placementDistance == 15
minPlacementHeight == 5
cameraDrop == 3

\* party environment: ELEMENT_CLEANUP_INTERVAL
ELEMENT_CLEANUP_INTERVAL == 60000

\* the clock steps of a run, for the lifetime L of what is shot: L, then one
\* millisecond, and so on, so that the ages 1, L and L+1 all occur
StepAt(k, L) == IF k % 2 = 0 THEN L ELSE 1

(***************************************************************************)
(* Helpers                                                                 *)
(***************************************************************************)
Range(s) == {s[i] : i \in DOMAIN s}

Reverse(s) == [i \in 1..Len(s) |-> s[Len(s) + 1 - i]]

\* Array.prototype.shift: the array without its first element
Shift(s) == SubSeq(s, 2, Len(s))

\* Array.prototype.pop: the array without its last element
Pop(s) == SubSeq(s, 1, Len(s) - 1)

\* the last n entries of s (all of s when it is shorter)
LastN(s, n) == IF Len(s) <= n THEN s ELSE SubSeq(s, Len(s) - n + 1, Len(s))

VARIABLES
    variant,          \* which MarbleShooter source: "pooled" or "simple"
    marbles,          \* MarbleShooter.marbles: active marbles, oldest first
    inactiveMarbles,  \* MarbleShooter.inactiveMarbles (pooled variant)
    physicsWorld,     \* marble bodies currently added to the CANNON world
    scene,            \* marble meshes currently attached to the THREE scene
    hidden,           \* marbles whose mesh.visible is false
    creationTime,     \* marble.creationTime
    bodyY,            \* marble.body.position.y, as "ok" or "fallen" (< -10)
    allocated,        \* number of marble objects created so far
    now,              \* Date.now()
    ticks,            \* clock advances so far
    shotLog,          \* marbles returned by the shoot() calls since the last
                      \* cleanupMarbles(), the last maxMarbles of them
    shotCount,        \* number of those shoot() calls, capped
    lastOp,           \* the operation that produced this state
    swept             \* active list as cleanupMarbles() found it

VARIABLES
    app,              \* which App runs: "marble", "galaga" or "none"
    session,          \* App.session: 0 for null, else the number of the session
    sessionsStarted,  \* sessions started so far
    requestPending,   \* a requestSession promise is outstanding
    xrRefSpace,       \* App.xrRefSpace: 0 for null, else the session it is of
    refSpacePending,  \* sessions whose requestReferenceSpace is outstanding
    hitTestSource,    \* App.hitTestSource: 0 for null, else its session
    hitTestSourceRequested,
    hitTestPending,   \* sessions whose requestHitTestSource is outstanding
    gameActive,
    score,
    frameCounter,     \* the class of App.frameCounter: 0 when it is a multiple
                      \* of the interval the App reads it by, else 1
    loopAlive,        \* the animation loop is still rescheduled
    marbleShooter,    \* App.marbleShooter is not null
    targets,          \* App.targets, as Target object numbers
    targetsCreated,
    entityMeshes,     \* meshes of players, enemies, projectiles and targets
                      \* attached to the scene (or the camera), as <<kind, id>>
    targetBodies,     \* target bodies in the CANNON world
    player,           \* App.player: 0 for null, else the Player object number
    playersCreated,
    invulnerable,     \* player.invulnerable
    playerLastFire,   \* player.lastFireTime
    enemies,          \* App.enemies: records id, health, lastFireTime, fireRate
    enemiesCreated,
    projectiles,      \* App.projectiles: records id, owner, creationTime
    projectilesCreated,
    level,
    lives,
    enemiesPerWave,
    enemyWaveCount,
    roomScanned,
    scanTimers,       \* pending RoomScanner.startScanning timeouts
    spawnTimers,      \* pending setTimeout(spawnEnemyWave) of checkLevelAdvance
    gameOvers,        \* game-over messages appended to the document
    gameOp,           \* the App handler that produced this state
    pass,             \* what the last checkCollisions pass did
    requestedIn,      \* SessionState in which the last handler called
                      \* requestSession, "none" if it did not
    frameSteps,       \* what the last handler did if it was a frame of a
                      \* running game: the steps of App.animate in order
    spawnedSince      \* an enemy was spawned since the session started or
                      \* the level last went up

shooterVars == <<variant, marbles, inactiveMarbles, physicsWorld, scene, hidden,
                 creationTime, bodyY, allocated, now, ticks, shotLog,
                 shotCount, lastOp, swept>>

appVars == <<app, session, sessionsStarted, requestPending, xrRefSpace,
             refSpacePending, hitTestSource, hitTestSourceRequested,
             hitTestPending, gameActive, score, frameCounter, loopAlive,
             marbleShooter, targets, targetsCreated, entityMeshes,
             targetBodies, player, playersCreated, invulnerable,
             playerLastFire, enemies, enemiesCreated, projectiles,
             projectilesCreated, level, lives, enemiesPerWave, enemyWaveCount,
             roomScanned, scanTimers, spawnTimers, gameOvers, gameOp, pass,
             requestedIn, frameSteps, spawnedSince>>

VARIABLES
    cKind,            \* whose checkCollision is called: "projectile" or "target"
    cActive,          \* this.active of the projectile or target
    cMarble,          \* the marble handed to Target.checkCollision is not null
    cPosA,            \* centre of the projectile or target, on a line
    cPosB,            \* centre of the other sphere
    cRadB,            \* radius of the other sphere
    cWasActive,       \* this.active when the call was made
    cResult           \* what the call returned: "hit", "miss", "none" before it

collisionVars == <<cKind, cActive, cMarble, cPosA, cPosB, cRadB, cWasActive,
                   cResult>>

\* The party environment keeps its session and handles in the variables of
\* the Apps above (session, xrRefSpace for xrReferenceSpace, hitTestSource,
\* hitTestSourceRequested and the pending requests); app is "party1" for
\* js/party-environment.js, "party2" for part_002, "party3" for part_003
VARIABLES
    isARMode,
    issued,           \* the session whose hit-test source the last handler
                      \* requested, 0 when it requested none
    audioBy,          \* which of them called startMicrophoneInput (playPartyMusic in part_004)
    sessionPlacements, \* elements placed by onSelect in the current session, at most 2 counted
    placed,           \* the last onSelect: where it put an element, if it did
    startButtonHidden, \* the start button carries the class hidden
    arSupported,      \* isSessionSupported('immersive-ar') of the device
    isMetaQuest,      \* the user agent test of part_002
    arSessionAttempts,
    attempt,          \* which request of the start action is pending: 0, 1, 2
    retryTimer,       \* the timeout before part_002's second request is set
    offerTimers,      \* pending confirm dialogs of handleARSessionError
    requestsIssued,   \* requestSession calls of the current start action
    failures,         \* rejected requests of the current start action
    surfaced,         \* handleARSessionError ran in the current start action
    offered,          \* it offered the non-AR mode
    startActions,     \* clicks on the start button so far
    arViewerSpace,    \* 0 for null, else the session it is of
    viewerPending,    \* sessions whose viewer-space request is outstanding
    reticleVisible,   \* reticle.visible
    polled,           \* the source the last frame gave to getHitTestResults
    partyElements,    \* records id, createdAt
    partyScene,       \* party elements whose mesh is in the scene
    elementsCreated,
    lastCleanupTime,
    nonARMode,        \* startNonARMode has run
    tick              \* the last render: its hit-test query, and whether
                      \* animatePartyElements and renderer.render ran (NoTick
                      \* from the start of a session to its first frame)

partyVars == <<isARMode, startButtonHidden, arSupported, isMetaQuest,
               arSessionAttempts, attempt, retryTimer, offerTimers,
               requestsIssued, failures, surfaced, offered, startActions,
               arViewerSpace, viewerPending, reticleVisible, polled,
               partyElements, partyScene, elementsCreated, lastCleanupTime,
               nonARMode, tick,
               placed,
               sessionPlacements,
               audioBy, issued>>

vars == <<shooterVars, appVars, collisionVars, partyVars>>

\* what a run of the pool on its own, of a game, and of the collision checks
\* leave alone
notShooterVars == <<appVars, collisionVars, partyVars>>

notGameVars == <<collisionVars, partyVars>>

notCollisionVars == <<shooterVars, appVars, partyVars>>

MarbleIds == 1..MaxMarbleObjects

\* the history of the pool (shotLog, shotCount, lastOp, swept) is kept when
\* the pool is run on its own
Logged == app = "none"

(***************************************************************************)
(* MarbleShooter                                                           *)
(***************************************************************************)

\* createNewMarble (pooled) / the tail of createMarble (simple): a fresh
\* marble object, mesh added to the scene and body added to the world
CanCreateNewMarble == allocated < MaxMarbleObjects

\* constructor: empty lists; the pooled variant prewarms its pool with
\* hidden marbles whose bodies are taken out of the world again
ShooterInit ==
    /\ variant \in {"pooled", "simple"}
    /\ marbles = <<>>
    /\ inactiveMarbles = IF variant = "pooled"
                           THEN [i \in 1..prewarmCount |-> i] ELSE <<>>
    /\ allocated = IF variant = "pooled" THEN prewarmCount ELSE 0
    /\ physicsWorld = {}
    /\ scene = IF variant = "pooled" THEN 1..prewarmCount ELSE {}
    /\ hidden = IF variant = "pooled" THEN 1..prewarmCount ELSE {}
    /\ creationTime = [m \in MarbleIds |-> StartTime]
    /\ bodyY = [m \in MarbleIds |-> "ok"]
    /\ now = StartTime
    /\ ticks = 0
    /\ shotLog = <<>>
    /\ shotCount = 0
    /\ lastOp = "init"
    /\ swept = <<>>

\* bookkeeping of shoot(): position the returned marble at the camera,
\* stamp its creation time
ShootMarble(m) ==
    /\ creationTime' = [creationTime EXCEPT ![m] = now]
    /\ bodyY' = [bodyY EXCEPT ![m] = "ok"]
    /\ shotLog' = IF Logged THEN LastN(Append(shotLog, m), maxMarbles) ELSE <<>>
    /\ shotCount' = IF Logged /\ shotCount <= maxMarbles THEN shotCount + 1
                                                         ELSE shotCount
    /\ lastOp' = IF Logged THEN "shoot" ELSE lastOp
    /\ swept' = <<>>
    /\ UNCHANGED <<variant, now, ticks>>

\* a reuse that reads the last inactive marble and leaves it in the pool
ReuseWithoutPop ==
    /\ Len(inactiveMarbles) > 0
    /\ LET m == inactiveMarbles[Len(inactiveMarbles)] IN
        /\ hidden' = hidden \ {m}
        /\ physicsWorld' = physicsWorld \cup {m}
        /\ marbles' = Append(marbles, m)
        /\ UNCHANGED <<inactiveMarbles, scene, allocated>>
        /\ ShootMarble(m)

\* createMarble of the pooled variant, first branch: reuse an inactive marble
ReuseInactive ==
    /\ Len(inactiveMarbles) > 0
    /\ LET m == inactiveMarbles[Len(inactiveMarbles)] IN
        /\ inactiveMarbles' = Pop(inactiveMarbles)
        /\ hidden' = hidden \ {m}
        /\ physicsWorld' = physicsWorld \cup {m}
        /\ marbles' = Append(marbles, m)
        /\ UNCHANGED <<scene, allocated>>
        /\ ShootMarble(m)

\* createMarble of the pooled variant, second branch: recycle the oldest
\* active marble and add it back to the active list
RecyclePooled ==
    /\ Len(inactiveMarbles) = 0
    /\ Len(marbles) >= maxMarbles
    /\ LET m == Head(marbles) IN
        /\ marbles' = Append(Shift(marbles), m)
        /\ UNCHANGED <<inactiveMarbles, hidden, physicsWorld, scene, allocated>>
        /\ ShootMarble(m)

\* createMarble of the simple variant at capacity: the oldest marble is
\* shifted off the list and returned; it is not pushed back
RecycleSimple ==
    /\ Len(marbles) >= maxMarbles
    /\ LET m == Head(marbles) IN
        /\ marbles' = Shift(marbles)
        /\ UNCHANGED <<inactiveMarbles, hidden, physicsWorld, scene, allocated>>
        /\ ShootMarble(m)

\* createMarble, last branch of both variants: a new marble
CreateNew ==
    /\ Len(marbles) < maxMarbles
    /\ CanCreateNewMarble
    /\ LET m == allocated + 1 IN
        /\ allocated' = m
        /\ scene' = scene \cup {m}
        /\ physicsWorld' = physicsWorld \cup {m}
        /\ marbles' = Append(marbles, m)
        /\ UNCHANGED <<inactiveMarbles, hidden>>
        /\ ShootMarble(m)

\* shoot(position, direction)
shoot ==
    \/ variant = "pooled" /\ ReuseInactive
    \/ variant = "pooled" /\ RecyclePooled
    \/ variant = "pooled" /\ Len(inactiveMarbles) = 0 /\ CreateNew
    \/ variant = "simple" /\ RecycleSimple
    \/ variant = "simple" /\ CreateNew

\* the removal test of cleanupMarbles, on body heights by
ShouldRemove(m, t, by) ==
    (t - creationTime[m] > marbleLifetime) \/ (by[m] = "fallen")

\* cleanupMarbles() on body heights by: marbles past their lifetime or below
\* the floor leave the active list; the pooled variant hides them and parks
\* them in the inactive pool (pushed from the highest index down), the
\* simple variant detaches their mesh
CleanupOf(by) ==
    LET gone == SelectSeq(marbles, LAMBDA m : ShouldRemove(m, now, by))
        kept == SelectSeq(marbles, LAMBDA m : ~ShouldRemove(m, now, by))
    IN  [marbles |-> kept,
         physicsWorld |-> physicsWorld \ Range(gone),
         inactiveMarbles |-> IF variant = "pooled"
                               THEN inactiveMarbles \o Reverse(gone)
                               ELSE inactiveMarbles,
         hidden |-> IF variant = "pooled" THEN hidden \cup Range(gone)
                                          ELSE hidden,
         scene |-> IF variant = "pooled" THEN scene ELSE scene \ Range(gone)]

cleanupMarbles ==
    LET r == CleanupOf(bodyY)
    IN  /\ marbles' = r.marbles
        /\ physicsWorld' = r.physicsWorld
        /\ inactiveMarbles' = r.inactiveMarbles
        /\ hidden' = r.hidden
        /\ scene' = r.scene
        /\ shotLog' = <<>>
        /\ shotCount' = 0
        /\ lastOp' = "cleanup"
        /\ swept' = marbles
        /\ UNCHANGED <<variant, creationTime, bodyY, allocated, now, ticks>>

\* the physics engine moves a simulated body below the floor threshold
Fall(m) ==
    /\ m \in physicsWorld
    /\ bodyY[m] = "ok"
    /\ bodyY' = [bodyY EXCEPT ![m] = "fallen"]
    /\ lastOp' = "physics"
    /\ swept' = <<>>
    /\ UNCHANGED <<variant, marbles, inactiveMarbles, physicsWorld, scene,
                   hidden, creationTime, allocated, now, ticks, shotLog,
                   shotCount>>

\* wall-clock time passes
Advance(d) ==
    /\ ticks < MaxTicks
    /\ now' = now + d
    /\ ticks' = ticks + 1
    /\ lastOp' = IF Logged THEN "clock" ELSE lastOp
    /\ swept' = <<>>
    /\ UNCHANGED <<variant, marbles, inactiveMarbles, physicsWorld, scene,
                   hidden, creationTime, bodyY, allocated, shotLog, shotCount>>

(***************************************************************************)
(* The games: the marble App (targets and a MarbleShooter) and the Galaga  *)
(* App (player, enemies, projectiles)                                      *)
(***************************************************************************)
Min2(a, b) == IF a <= b THEN a ELSE b

MinOf(S) == CHOOSE x \in S : \A y \in S : x <= y

\* Array.prototype.splice(i, 1)
RemoveIndex(s, i) == SubSeq(s, 1, i - 1) \o SubSeq(s, i + 1, Len(s))

Ids(s) == {s[i].id : i \in DOMAIN s}

\* no frame of a running game
NoFrame == [running |-> FALSE, steps |-> <<>>]

\* a pass that did not run
NoPass == [ran |-> FALSE, score0 |-> 0, level |-> 0, dead |-> {},
           credits |-> 0, before |-> <<>>, hits |-> {}, threw |-> FALSE,
           alive |-> {}, pThrew |-> FALSE]

\* the App as its constructor leaves it
AppInit ==
    /\ session = 0
    /\ sessionsStarted = 0
    /\ requestPending = FALSE
    /\ xrRefSpace = 0
    /\ refSpacePending = {}
    /\ hitTestSource = 0
    /\ hitTestSourceRequested = FALSE
    /\ hitTestPending = {}
    /\ gameActive = FALSE
    /\ score = 0
    /\ frameCounter = 0
    /\ loopAlive = TRUE
    /\ marbleShooter = FALSE
    /\ targets = <<>>
    /\ targetsCreated = 0
    /\ entityMeshes = {}
    /\ targetBodies = {}
    /\ player = 0
    /\ playersCreated = 0
    /\ invulnerable = FALSE
    /\ playerLastFire = 0
    /\ enemies = <<>>
    /\ enemiesCreated = 0
    /\ projectiles = <<>>
    /\ projectilesCreated = 0
    /\ level = 1
    /\ lives = initialLives
    /\ enemiesPerWave = initialEnemiesPerWave
    /\ enemyWaveCount = 0
    /\ roomScanned = FALSE
    /\ scanTimers = 0
    /\ spawnTimers = 0
    /\ gameOvers = 0
    /\ gameOp = "constructor"
    /\ pass = NoPass
    /\ requestedIn = "none"
    /\ frameSteps = NoFrame
    /\ spawnedSince = FALSE

\* a collision test that counts touching spheres as a hit
checkCollisionNonStrict(active, distance, radiusA, radiusB) ==
    active /\ distance <= radiusA + radiusB

\* Projectile.checkCollision, and the test of Target.checkCollision: the
\* receiver is active and the centres are closer than the sum of the radii
checkCollision(active, distance, radiusA, radiusB) ==
    active /\ distance < radiusA + radiusB

\* Projectile.hasExpired at time t
hasExpired(p, t) == t - p.creationTime > projectileLifespan

\* Enemy.hit: one point of health less (explode() when it reaches 0)
EnemyHit(e) == [e EXCEPT !.health = @ - 1]

\* Enemy.isDead
isDead(e) == e.health <= 0

\* Enemy.canFire at time t
canFire(e, t) == t - e.lastFireTime > e.fireRate

\* lengths of App.formationPatterns (5, 5 and 9 positions in the source; the
\* model runs formations of 2, 2 and 3)
PatternLengths == <<2, 2, 3>>

\* the centre distance of a moving sphere to candidate j, when aim is the
\* candidate it overlaps: the candidates before it are touched exactly
\* (distance equal to the sum of the radii), those after it are clear
DistFor(aim, j, sum) ==
    IF j = aim THEN sum - 1 ELSE IF j < aim THEN sum ELSE sum + 1

\* the inner loop over candidates 1..n: the first one checkCollision reports
FirstHit(aim, n, rA, rB) ==
    LET H == {j \in 1..n : checkCollision(TRUE, DistFor(aim, j, rA + rB), rA, rB)}
    IN  IF H = {} THEN 0 ELSE MinOf(H)

\* App.playerHit on the loop state st: a life less, the hit effect, and
\* gameOver() when no life is left
playerHit(st) ==
    [st EXCEPT !.lives = @ - 1,
               !.invulnerable = TRUE,
               !.gameActive = IF st.lives - 1 <= 0 THEN FALSE ELSE @,
               !.gameOvers = IF st.lives - 1 <= 0 THEN @ + 1 ELSE @]

\* the projectile loop of the Galaga checkCollisions from index i on
RECURSIVE CollideFrom(_, _, _, _)
CollideFrom(i, projs, aim, st) ==
    IF i > Len(projs) THEN st
    ELSE
      LET p == projs[i]
          h == FirstHit(aim[i], Len(st.enemies), projectileRadius, enemyRadius)
          e2 == EnemyHit(st.enemies[h])
          st1 ==
            IF p.owner = "player"
              THEN IF h = 0
                     THEN st
                     ELSE [st EXCEPT
                             !.enemies[h] = e2,
                             !.eRem = IF isDead(e2) THEN Append(@, h) ELSE @,
                             !.score = IF isDead(e2) THEN @ + killScore * level
                                                     ELSE @,
                             !.credits = IF isDead(e2) THEN @ + 1 ELSE @,
                             !.dead = IF isDead(e2) THEN @ \cup {e2.id} ELSE @,
                             !.pRem = Append(@, i),
                             !.hits = @ \cup {p.id}]
              ELSE IF FirstHit(aim[i], 1, projectileRadius, playerRadius) = 1
                     THEN [playerHit(st) EXCEPT !.pRem = Append(@, i),
                                                !.hits = @ \cup {p.id}]
                     ELSE st
          st2 == IF hasExpired(p, now) THEN [st1 EXCEPT !.pRem = Append(@, i)]
                                       ELSE st1
      IN  CollideFrom(i + 1, projs, aim, st2)

\* the removal loops: the indices of rem from the last to the first; an index
\* past the end of the list reads undefined and remove() on it throws
RECURSIVE RemoveAt(_, _, _)
RemoveAt(list, rem, k) ==
    IF k = 0 THEN [list |-> list, threw |-> FALSE]
    ELSE IF rem[k] > Len(list) THEN [list |-> list, threw |-> TRUE]
    ELSE RemoveAt(RemoveIndex(list, rem[k]), rem, k - 1)

\* App.checkCollisions of the Galaga App on the lists ens and projs; it
\* returns at once when there is no player
GalagaPass(ens, projs, aim) ==
    LET st0 == [enemies |-> ens, score |-> score, lives |-> lives,
                gameActive |-> gameActive, gameOvers |-> gameOvers,
                invulnerable |-> invulnerable, pRem |-> <<>>, eRem |-> <<>>,
                dead |-> {}, hits |-> {}, credits |-> 0]
    IN  IF player = 0
          THEN [projectiles |-> projs, enemies |-> ens, threw |-> FALSE,
                score |-> score, lives |-> lives, gameActive |-> gameActive,
                gameOvers |-> gameOvers, invulnerable |-> invulnerable,
                gone |-> {}, pass |-> NoPass]
          ELSE
            \* the loop state, then the two removal loops; a throw in the
            \* first skips the second
            LET st == CollideFrom(1, projs, aim, st0)
                pr == RemoveAt(projs, st.pRem, Len(st.pRem))
                er == IF pr.threw THEN [list |-> st.enemies, threw |-> TRUE]
                      ELSE RemoveAt(st.enemies, st.eRem, Len(st.eRem))
            IN  [projectiles |-> pr.list, enemies |-> er.list,
                 threw |-> er.threw, score |-> st.score, lives |-> st.lives,
                 gameActive |-> st.gameActive, gameOvers |-> st.gameOvers,
                 invulnerable |-> st.invulnerable,
                 gone |-> {<<"projectile", i>> : i \in Ids(projs) \ Ids(pr.list)}
                            \cup {<<"enemy", i>> :
                                    i \in (Ids(ens) \ Ids(er.list)) \cup st.dead},
                 pass |-> [ran |-> TRUE, score0 |-> score, level |-> level,
                           dead |-> st.dead,
                           credits |-> st.credits, before |-> projs,
                           hits |-> st.hits, threw |-> er.threw,
                           alive |-> {e.id : e \in {x \in Range(st.enemies) :
                                                       ~isDead(x)}},
                           pThrew |-> pr.threw]]

\* an index taken from the level itself
patternIndexOfLevel(lvl) == lvl % Len(PatternLengths)

\* patternIndex = (this.level - 1) % this.formationPatterns.length
patternIndex(lvl) == (lvl - 1) % Len(PatternLengths)

\* App.spawnEnemyWave at level lvl with wave size epw on the list ens
WaveSize(lvl, epw) == Min2(PatternLengths[patternIndex(lvl) + 1], epw)

\* new Enemy(scene, spawnPosition, level), with the index of the formation
\* pattern the wave loop runs over
NewEnemy(i, lvl) == [id |-> i, health |-> (lvl + 2) \div 3, lastFireTime |-> 0,
                     fireRate |-> 3000 - lvl * 200,
                     pattern |-> patternIndex(lvl)]

spawnEnemyWave(ens, created, waves, lvl, epw) ==
    IF Len(ens) >= maxEnemies
      THEN [enemies |-> ens, created |-> created, waves |-> waves, meshes |-> {}]
      ELSE [enemies |-> ens \o [k \in 1..WaveSize(lvl, epw) |->
                                    NewEnemy(created + k, lvl)],
            created |-> created + WaveSize(lvl, epw),
            waves |-> waves + 1,
            meshes |-> {<<"enemy", created + k>> : k \in 1..WaveSize(lvl, epw)}]

\* the wave fits the number of Enemy objects of a run
CanSpawn(ens, created, lvl, epw) ==
    Len(ens) >= maxEnemies \/ created + WaveSize(lvl, epw) <= MaxEnemyObjects

\* App.cleanupScene of the Galaga App: the meshes it detaches
GalagaCleanedMeshes ==
    {<<"enemy", i>> : i \in Ids(enemies)}
      \cup {<<"projectile", i>> : i \in Ids(projectiles)}
      \cup (IF player # 0 THEN {<<"player", player>>} ELSE {})

sessionVars == <<session, sessionsStarted, requestPending, xrRefSpace,
                 refSpacePending, hitTestSource, hitTestSourceRequested,
                 hitTestPending>>

galagaVars == <<player, playersCreated, invulnerable, playerLastFire, enemies,
                enemiesCreated, projectiles, projectilesCreated, level, lives,
                enemiesPerWave, enemyWaveCount, roomScanned, scanTimers,
                spawnTimers, gameOvers>>

marbleAppVars == <<marbleShooter, targets, targetsCreated, targetBodies>>

poolVars == <<variant, marbles, inactiveMarbles, physicsWorld, scene, hidden,
              creationTime, bodyY, allocated>>

clockVars == <<now, ticks>>

historyVars == <<shotLog, shotCount, lastOp, swept>>

(***************************************************************************)
(* Session handlers of both Apps                                           *)
(***************************************************************************)

\* the state of the session as the App's fields and its outstanding
\* requestSession promise give it
SessionState ==
    IF session # 0 THEN "Active"
    ELSE IF requestPending THEN "Requesting"
    ELSE "Inactive"

\* App.startXR: the start button, shown from construction until
\* onXRSessionStarted hides it and again from onXRSessionEnded on, asks for
\* an immersive-ar session; a request made while one is outstanding leaves
\* one outstanding
startXR ==
    /\ session = 0
    /\ sessionsStarted < MaxSessions
    /\ requestPending' = TRUE
    /\ requestedIn' = SessionState
    /\ frameSteps' = NoFrame
    /\ spawnedSince' = spawnedSince
    /\ gameOp' = "startXR"
    /\ pass' = NoPass
    /\ UNCHANGED <<session, sessionsStarted, xrRefSpace, refSpacePending,
                   hitTestSource, hitTestSourceRequested, hitTestPending>>
    /\ UNCHANGED <<app, gameActive, score, frameCounter, loopAlive, entityMeshes>>
    /\ UNCHANGED <<galagaVars, marbleAppVars, shooterVars>>

\* the session request is rejected; startXR has no rejection handler
SessionRejected ==
    /\ requestPending
    /\ requestPending' = FALSE
    /\ gameOp' = "rejected"
    /\ pass' = NoPass
    /\ requestedIn' = "none"
    /\ frameSteps' = NoFrame
    /\ spawnedSince' = spawnedSince
    /\ UNCHANGED <<session, sessionsStarted, xrRefSpace, refSpacePending,
                   hitTestSource, hitTestSourceRequested, hitTestPending>>
    /\ UNCHANGED <<app, gameActive, score, frameCounter, loopAlive, entityMeshes>>
    /\ UNCHANGED <<galagaVars, marbleAppVars, shooterVars>>

\* App.onXRSessionStarted of the Galaga App
GalagaSessionStarted ==
    /\ app = "galaga"
    /\ requestPending
    /\ requestPending' = FALSE
    /\ sessionsStarted' = sessionsStarted + 1
    /\ session' = sessionsStarted + 1
    /\ xrRefSpace' = 0
    /\ gameActive' = TRUE
    /\ score' = 0
    /\ level' = 1
    /\ lives' = initialLives
    /\ refSpacePending' = refSpacePending \cup {sessionsStarted + 1}
    /\ gameOp' = "onXRSessionStarted"
    /\ pass' = NoPass
    /\ requestedIn' = "none"
    /\ frameSteps' = NoFrame
    /\ spawnedSince' = FALSE
    /\ UNCHANGED <<hitTestSource, hitTestSourceRequested, hitTestPending>>
    /\ UNCHANGED <<app, frameCounter, loopAlive, entityMeshes>>
    /\ UNCHANGED <<player, playersCreated, invulnerable, playerLastFire,
                   enemies, enemiesCreated, projectiles, projectilesCreated,
                   enemiesPerWave, enemyWaveCount, roomScanned, scanTimers,
                   spawnTimers, gameOvers>>
    /\ UNCHANGED <<marbleAppVars, shooterVars>>

\* App.onXRSessionStarted of the marble App; new MarbleShooter(...) prewarms
\* its pool
MarbleSessionStarted ==
    /\ app = "marble"
    /\ requestPending
    /\ allocated + prewarmCount <= MaxMarbleObjects
    /\ requestPending' = FALSE
    /\ sessionsStarted' = sessionsStarted + 1
    /\ session' = sessionsStarted + 1
    /\ xrRefSpace' = 0
    /\ marbleShooter' = TRUE
    /\ marbles' = <<>>
    /\ inactiveMarbles' = [i \in 1..prewarmCount |-> allocated + i]
    /\ allocated' = allocated + prewarmCount
    /\ scene' = scene \cup ((allocated + 1)..(allocated + prewarmCount))
    /\ hidden' = hidden \cup ((allocated + 1)..(allocated + prewarmCount))
    /\ creationTime' = [m \in MarbleIds |->
                          IF m \in (allocated + 1)..(allocated + prewarmCount)
                            THEN now ELSE creationTime[m]]
    /\ gameActive' = TRUE
    /\ score' = 0
    /\ refSpacePending' = refSpacePending \cup {sessionsStarted + 1}
    /\ gameOp' = "onXRSessionStarted"
    /\ pass' = NoPass
    /\ requestedIn' = "none"
    /\ frameSteps' = NoFrame
    /\ spawnedSince' = spawnedSince
    /\ UNCHANGED <<hitTestSource, hitTestSourceRequested, hitTestPending>>
    /\ UNCHANGED <<app, frameCounter, loopAlive, entityMeshes>>
    /\ UNCHANGED <<targets, targetsCreated, targetBodies>>
    /\ UNCHANGED <<variant, physicsWorld, bodyY, clockVars, historyVars>>
    /\ UNCHANGED galagaVars

\* requestReferenceSpace('local') of session s resolves: the space is stored
\* whether or not s is still the session; the Galaga App goes on to
\* scanRoom(), which starts the RoomScanner's timeout
RefSpaceResolved(s) ==
    /\ s \in refSpacePending
    /\ refSpacePending' = refSpacePending \ {s}
    /\ xrRefSpace' = s
    /\ scanTimers' = IF app = "galaga" THEN scanTimers + 1 ELSE scanTimers
    /\ gameOp' = "refSpace"
    /\ pass' = NoPass
    /\ requestedIn' = "none"
    /\ frameSteps' = NoFrame
    /\ spawnedSince' = spawnedSince
    /\ UNCHANGED <<session, sessionsStarted, requestPending, hitTestSource,
                   hitTestSourceRequested, hitTestPending>>
    /\ UNCHANGED <<app, gameActive, score, frameCounter, loopAlive, entityMeshes>>
    /\ UNCHANGED <<player, playersCreated, invulnerable, playerLastFire,
                   enemies, enemiesCreated, projectiles, projectilesCreated,
                   level, lives, enemiesPerWave, enemyWaveCount, roomScanned,
                   spawnTimers, gameOvers>>
    /\ UNCHANGED <<marbleAppVars, shooterVars>>

\* a request of an ended session is rejected instead; no handler runs
RequestDropped(s) ==
    /\ s # session
    /\ s \in refSpacePending \cup hitTestPending
    /\ refSpacePending' = refSpacePending \ {s}
    /\ hitTestPending' = hitTestPending \ {s}
    /\ gameOp' = "dropped"
    /\ pass' = NoPass
    /\ requestedIn' = "none"
    /\ frameSteps' = NoFrame
    /\ spawnedSince' = spawnedSince
    /\ UNCHANGED <<session, sessionsStarted, requestPending, xrRefSpace,
                   hitTestSource, hitTestSourceRequested>>
    /\ UNCHANGED <<app, gameActive, score, frameCounter, loopAlive, entityMeshes>>
    /\ UNCHANGED <<galagaVars, marbleAppVars, shooterVars>>

\* requestHitTestSource of session s resolves (marble App.animate): the
\* source is stored whether or not s is still the session
HitTestResolved(s) ==
    /\ s \in hitTestPending
    /\ hitTestPending' = hitTestPending \ {s}
    /\ hitTestSource' = s
    /\ gameOp' = "hitTestSource"
    /\ pass' = NoPass
    /\ requestedIn' = "none"
    /\ frameSteps' = NoFrame
    /\ spawnedSince' = spawnedSince
    /\ UNCHANGED <<session, sessionsStarted, requestPending, xrRefSpace,
                   refSpacePending, hitTestSourceRequested>>
    /\ UNCHANGED <<app, gameActive, score, frameCounter, loopAlive, entityMeshes>>
    /\ UNCHANGED <<galagaVars, marbleAppVars, shooterVars>>

\* MarbleShooter.remove: what it leaves in the scene and in the world
ShooterRemove ==
    [scene |-> scene \ (Range(marbles) \cup Range(inactiveMarbles)),
     physicsWorld |-> physicsWorld \ Range(marbles)]

\* App.cleanupScene of the marble App: the target meshes and bodies it
\* releases
MarbleCleanedTargets == Range(targets)

\* App.onXRSessionEnded with App.cleanupScene, Galaga App
GalagaSessionEnded ==
    /\ app = "galaga"
    /\ session # 0
    /\ session' = 0
    /\ hitTestSource' = 0
    /\ hitTestSourceRequested' = FALSE
    /\ gameActive' = FALSE
    /\ enemies' = <<>>
    /\ projectiles' = <<>>
    /\ player' = 0
    /\ entityMeshes' = entityMeshes \ GalagaCleanedMeshes
    /\ gameOp' = "onXRSessionEnded"
    /\ pass' = NoPass
    /\ requestedIn' = "none"
    /\ frameSteps' = NoFrame
    /\ spawnedSince' = spawnedSince
    /\ UNCHANGED <<sessionsStarted, requestPending, xrRefSpace,
                   refSpacePending, hitTestPending>>
    /\ UNCHANGED <<app, score, frameCounter, loopAlive>>
    /\ UNCHANGED <<playersCreated, invulnerable, playerLastFire,
                   enemiesCreated, projectilesCreated, level, lives,
                   enemiesPerWave, enemyWaveCount, roomScanned, scanTimers,
                   spawnTimers, gameOvers>>
    /\ UNCHANGED <<marbleAppVars, shooterVars>>

\* App.onXRSessionEnded with App.cleanupScene, marble App
MarbleSessionEnded ==
    /\ app = "marble"
    /\ session # 0
    /\ session' = 0
    /\ hitTestSource' = 0
    /\ hitTestSourceRequested' = FALSE
    /\ gameActive' = FALSE
    /\ targets' = <<>>
    /\ entityMeshes' = entityMeshes \ {<<"target", t>> : t \in MarbleCleanedTargets}
    /\ targetBodies' = targetBodies \ MarbleCleanedTargets
    /\ IF marbleShooter
         THEN /\ scene' = ShooterRemove.scene
              /\ physicsWorld' = ShooterRemove.physicsWorld
              /\ marbles' = <<>>
              /\ inactiveMarbles' = <<>>
         ELSE UNCHANGED <<scene, physicsWorld, marbles, inactiveMarbles>>
    /\ marbleShooter' = FALSE
    \* the dropped MarbleShooter and its marbles are unreachable: their
    \* fields are forgotten and their numbers free for the next shooter
    /\ allocated' = 0
    /\ hidden' = {}
    /\ creationTime' = [m \in MarbleIds |-> StartTime]
    /\ bodyY' = [m \in MarbleIds |-> "ok"]
    /\ gameOp' = "onXRSessionEnded"
    /\ pass' = NoPass
    /\ requestedIn' = "none"
    /\ frameSteps' = NoFrame
    /\ spawnedSince' = spawnedSince
    /\ UNCHANGED <<sessionsStarted, requestPending, xrRefSpace,
                   refSpacePending, hitTestPending>>
    /\ UNCHANGED <<app, score, frameCounter, loopAlive, targetsCreated>>
    /\ UNCHANGED <<variant, clockVars, historyVars>>
    /\ UNCHANGED galagaVars

(***************************************************************************)
(* Galaga App                                                              *)
(***************************************************************************)

\* the callback of scanRoom(): the RoomScanner's timeout fired; the player
\* is created and the first wave spawned, whatever the session state
ScanComplete ==
    /\ app = "galaga"
    /\ scanTimers > 0
    /\ playersCreated < MaxPlayerObjects
    /\ CanSpawn(enemies, enemiesCreated, level, enemiesPerWave)
    /\ LET w == spawnEnemyWave(enemies, enemiesCreated, enemyWaveCount, level,
                               enemiesPerWave)
       IN  /\ scanTimers' = scanTimers - 1
           /\ roomScanned' = TRUE
           /\ player' = playersCreated + 1
           /\ playersCreated' = playersCreated + 1
           /\ invulnerable' = FALSE
           /\ playerLastFire' = 0
           /\ enemies' = w.enemies
           /\ enemiesCreated' = w.created
           /\ enemyWaveCount' = w.waves
           /\ entityMeshes' = entityMeshes \cup w.meshes
                                \cup {<<"player", playersCreated + 1>>}
    /\ gameOp' = "scanComplete"
    /\ pass' = NoPass
    /\ requestedIn' = "none"
    /\ frameSteps' = NoFrame
    /\ spawnedSince' = (spawnedSince \/ Len(enemies') > Len(enemies))
    /\ UNCHANGED <<sessionVars, app, gameActive, score, frameCounter, loopAlive>>
    /\ UNCHANGED <<projectiles, projectilesCreated, level, lives,
                   enemiesPerWave, spawnTimers, gameOvers>>
    /\ UNCHANGED <<marbleAppVars, shooterVars>>

\* the timeout set by checkLevelAdvance fires: spawnEnemyWave()
SpawnTimerFires ==
    /\ app = "galaga"
    /\ spawnTimers > 0
    /\ CanSpawn(enemies, enemiesCreated, level, enemiesPerWave)
    /\ LET w == spawnEnemyWave(enemies, enemiesCreated, enemyWaveCount, level,
                               enemiesPerWave)
       IN  /\ spawnTimers' = spawnTimers - 1
           /\ enemies' = w.enemies
           /\ enemiesCreated' = w.created
           /\ enemyWaveCount' = w.waves
           /\ entityMeshes' = entityMeshes \cup w.meshes
    /\ gameOp' = "spawnTimer"
    /\ pass' = NoPass
    /\ requestedIn' = "none"
    /\ frameSteps' = NoFrame
    /\ spawnedSince' = (spawnedSince \/ Len(enemies') > Len(enemies))
    /\ UNCHANGED <<sessionVars, app, gameActive, score, frameCounter, loopAlive>>
    /\ UNCHANGED <<player, playersCreated, invulnerable, playerLastFire,
                   projectiles, projectilesCreated, level, lives,
                   enemiesPerWave, roomScanned, scanTimers, gameOvers>>
    /\ UNCHANGED <<marbleAppVars, shooterVars>>

\* App.spawnEnemyWave called on its own, on an enemy list of any length
SpawnWave ==
    /\ app = "galaga"
    /\ spawnTimers > 0
    /\ LET w == spawnEnemyWave(enemies, enemiesCreated, enemyWaveCount, level,
                               enemiesPerWave)
       IN  /\ spawnTimers' = spawnTimers - 1
           /\ enemies' = w.enemies
           /\ enemiesCreated' = w.created
           /\ enemyWaveCount' = w.waves
           /\ entityMeshes' = entityMeshes \cup w.meshes
    /\ gameOp' = "spawnEnemyWave"
    /\ pass' = NoPass
    /\ requestedIn' = "none"
    /\ frameSteps' = NoFrame
    /\ spawnedSince' = (spawnedSince \/ Len(enemies') > Len(enemies))
    /\ UNCHANGED <<sessionVars, app, gameActive, score, frameCounter, loopAlive>>
    /\ UNCHANGED <<player, playersCreated, invulnerable, playerLastFire,
                   projectiles, projectilesCreated, level, lives,
                   enemiesPerWave, roomScanned, scanTimers, gameOvers>>
    /\ UNCHANGED <<marbleAppVars, shooterVars>>

\* Player.shoot: the fire-rate check; the new lastFireTime
PlayerShoot(last, t) == IF t - last < playerFireRate THEN last ELSE t

\* App.onSelect of the Galaga App: player.shoot() is called and its result
\* dropped, then a player projectile is created
GalagaSelect ==
    /\ app = "galaga"
    /\ session # 0
    /\ gameActive
    /\ player # 0
    /\ projectilesCreated < MaxProjectileObjects
    /\ playerLastFire' = PlayerShoot(playerLastFire, now)
    /\ projectilesCreated' = projectilesCreated + 1
    /\ projectiles' = Append(projectiles, [id |-> projectilesCreated + 1,
                                owner |-> "player", creationTime |-> now])
    /\ entityMeshes' = entityMeshes \cup {<<"projectile", projectilesCreated + 1>>}
    /\ gameOp' = "onSelect"
    /\ pass' = NoPass
    /\ requestedIn' = "none"
    /\ frameSteps' = NoFrame
    /\ spawnedSince' = spawnedSince
    /\ UNCHANGED <<sessionVars, app, gameActive, score, frameCounter, loopAlive>>
    /\ UNCHANGED <<player, playersCreated, invulnerable, enemies,
                   enemiesCreated, level, lives, enemiesPerWave,
                   enemyWaveCount, roomScanned, scanTimers, spawnTimers,
                   gameOvers>>
    /\ UNCHANGED <<marbleAppVars, shooterVars>>

\* the steps of a frame of the Galaga App.animate in a running game:
\* player, projectile and enemy updates with enemy fire, checkCollisions,
\* checkLevelAdvance, the periodic spawn check and roomScanner.update; a
\* throw in checkCollisions ends the frame
GalagaSteps(threw) ==
    IF threw THEN <<"update", "collisions">>
    ELSE <<"update", "collisions", "levelAdvance", "spawn", "scan">>

\* one frame of App.animate in a running game. Inputs: f, the enemy that
\* fires in this frame (0 for none), aim, for every projectile the enemy it
\* overlaps first (for an enemy projectile: 1 when it overlaps the player),
\* and fc, the class of the incremented frame counter. A throw in
\* checkCollisions leaves the rest of the frame undone and the animation
\* loop is not rescheduled
GalagaFrame(f, aim, fc) ==
    LET shot == [id |-> projectilesCreated + 1, owner |-> "enemy",
                 creationTime |-> now]
        ens1 == IF f = 0 THEN enemies
                         ELSE [enemies EXCEPT ![f].lastFireTime = now]
        projs1 == IF f = 0 THEN projectiles ELSE Append(projectiles, shot)
    IN
    /\ f # 0 => /\ canFire(enemies[f], now)
                /\ projectilesCreated < MaxProjectileObjects
    /\ player = 0 => \A i \in DOMAIN aim : aim[i] = 0
    /\ \A i \in DOMAIN aim : projs1[i].owner = "enemy" => aim[i] <= 1
    /\ \E r \in {GalagaPass(ens1, projs1, aim)} :
        LET adv == ~r.threw /\ r.enemies = <<>> /\ enemyWaveCount > 0
            level1 == IF adv THEN level + 1 ELSE level
            epw1 == IF adv THEN Min2(5 + level1, maxEnemies) ELSE enemiesPerWave
            waves1 == IF adv THEN 0 ELSE enemyWaveCount
            due == /\ ~r.threw
                   /\ roomScanned
                   /\ fc = 0
                   /\ Len(r.enemies) < Min2(3 + level1, maxEnemies)
        IN
        /\ adv => level < MaxLevel
        /\ due => CanSpawn(r.enemies, enemiesCreated, level1, epw1)
        /\ \E w \in {IF due THEN spawnEnemyWave(r.enemies, enemiesCreated,
                                                waves1, level1, epw1)
                            ELSE [enemies |-> r.enemies,
                                  created |-> enemiesCreated,
                                  waves |-> waves1, meshes |-> {}]} :
            /\ enemies' = w.enemies
            /\ enemiesCreated' = w.created
            /\ enemyWaveCount' = w.waves
            /\ entityMeshes' =
                 ((entityMeshes \cup (IF f = 0 THEN {}
                                               ELSE {<<"projectile", shot.id>>}))
                     \ r.gone) \cup w.meshes
        /\ projectilesCreated' = IF f = 0 THEN projectilesCreated
                                          ELSE projectilesCreated + 1
        /\ projectiles' = r.projectiles
        /\ level' = level1
        /\ enemiesPerWave' = epw1
        /\ spawnTimers' = IF adv THEN spawnTimers + 1 ELSE spawnTimers
        /\ score' = r.score
        /\ lives' = r.lives
        /\ gameActive' = r.gameActive
        /\ gameOvers' = r.gameOvers
        /\ invulnerable' = r.invulnerable
        /\ loopAlive' = ~r.threw
        /\ pass' = r.pass
        /\ requestedIn' = "none"
        /\ frameSteps' = [running |-> TRUE, steps |-> GalagaSteps(r.threw)]
        /\ spawnedSince' = \/ ~adv /\ spawnedSince
                           \/ Len(enemies') > Len(r.enemies)

\* App.animate of the Galaga App. The frame counter is read only through
\* frameCounter % (240 - level * 10) === 0, so the model keeps its class: 0
\* when it is a multiple of the spawn interval, 1 otherwise; the interval is
\* above 1, so a multiple is never followed by a multiple
GalagaAnimate ==
    /\ app = "galaga"
    /\ loopAlive
    /\ \E fc \in {0, 1} :
         /\ frameCounter = 0 => fc = 1
         /\ frameCounter' = fc
         /\ IF session # 0 /\ gameActive
              THEN \E f \in 0..Len(enemies) :
                     \E aim \in [1..(Len(projectiles) + (IF f = 0 THEN 0 ELSE 1))
                                   -> 0..Len(enemies)] :
                       GalagaFrame(f, aim, fc)
              ELSE /\ pass' = NoPass
                   /\ requestedIn' = "none"
                   /\ frameSteps' = NoFrame
                   /\ spawnedSince' = spawnedSince
                   /\ UNCHANGED <<gameActive, score, loopAlive, entityMeshes,
                                  projectiles, projectilesCreated, enemies,
                                  enemiesCreated, enemyWaveCount, level,
                                  enemiesPerWave, spawnTimers, lives,
                                  gameOvers, invulnerable>>
    /\ gameOp' = "animate"
    /\ UNCHANGED <<sessionVars, app>>
    /\ UNCHANGED <<player, playersCreated, playerLastFire, roomScanned,
                   scanTimers>>
    /\ UNCHANGED <<marbleAppVars, shooterVars>>

\* the timeout of Player.showHitEffect ends the invulnerability
InvulnerabilityEnds ==
    /\ app = "galaga"
    /\ player # 0
    /\ invulnerable
    /\ invulnerable' = FALSE
    /\ gameOp' = "hitEffectTimer"
    /\ pass' = NoPass
    /\ requestedIn' = "none"
    /\ frameSteps' = NoFrame
    /\ spawnedSince' = spawnedSince
    /\ UNCHANGED <<sessionVars, app, gameActive, score, frameCounter,
                   loopAlive, entityMeshes>>
    /\ UNCHANGED <<player, playersCreated, playerLastFire, enemies,
                   enemiesCreated, projectiles, projectilesCreated, level,
                   lives, enemiesPerWave, enemyWaveCount, roomScanned,
                   scanTimers, spawnTimers, gameOvers>>
    /\ UNCHANGED <<marbleAppVars, shooterVars>>

\* the restart button of a game-over message: the message is removed,
\* cleanupScene() runs and session.end() leads to onXRSessionEnded
RestartClick ==
    /\ app = "galaga"
    /\ gameOvers > 0
    /\ session # 0
    /\ gameOvers' = gameOvers - 1
    /\ session' = 0
    /\ hitTestSource' = 0
    /\ hitTestSourceRequested' = FALSE
    /\ gameActive' = FALSE
    /\ enemies' = <<>>
    /\ projectiles' = <<>>
    /\ player' = 0
    /\ entityMeshes' = entityMeshes \ GalagaCleanedMeshes
    /\ gameOp' = "onXRSessionEnded"
    /\ pass' = NoPass
    /\ requestedIn' = "none"
    /\ frameSteps' = NoFrame
    /\ spawnedSince' = spawnedSince
    /\ UNCHANGED <<sessionsStarted, requestPending, xrRefSpace,
                   refSpacePending, hitTestPending>>
    /\ UNCHANGED <<app, score, frameCounter, loopAlive>>
    /\ UNCHANGED <<playersCreated, invulnerable, playerLastFire,
                   enemiesCreated, projectilesCreated, level, lives,
                   enemiesPerWave, enemyWaveCount, roomScanned, scanTimers,
                   spawnTimers>>
    /\ UNCHANGED <<marbleAppVars, shooterVars>>

\* wall-clock time passes during a Galaga game (in the marble game of the
\* model marbles leave by falling; their expiry is run with the pool on its
\* own)
GameAdvance(d) ==
    /\ app = "galaga"
    /\ Advance(d)
    /\ gameOp' = "clock"
    /\ pass' = NoPass
    /\ requestedIn' = "none"
    /\ frameSteps' = NoFrame
    /\ spawnedSince' = spawnedSince
    /\ UNCHANGED <<sessionVars, app, gameActive, score, frameCounter,
                   loopAlive, entityMeshes>>
    /\ UNCHANGED <<galagaVars, marbleAppVars>>

(***************************************************************************)
(* Marble App                                                              *)
(***************************************************************************)

\* App.onSelect of the marble App: marbleShooter.shoot(...)
MarbleSelect ==
    /\ app = "marble"
    /\ session # 0
    /\ gameActive
    /\ marbleShooter
    /\ shoot
    /\ gameOp' = "onSelect"
    /\ pass' = NoPass
    /\ requestedIn' = "none"
    /\ frameSteps' = NoFrame
    /\ spawnedSince' = spawnedSince
    /\ UNCHANGED <<sessionVars, app, gameActive, score, frameCounter,
                   loopAlive, entityMeshes>>
    /\ UNCHANGED <<galagaVars, marbleAppVars>>

\* the target loop of the marble App.checkCollisions from index i on: the
\* first marble a target overlaps explodes it and scores
RECURSIVE TargetLoop(_, _, _, _)
TargetLoop(i, tgts, aim, st) ==
    IF i > Len(tgts) THEN st
    ELSE
      LET h == FirstHit(aim[i], Len(marbles), targetRadius, marbleRadius)
          st1 == IF h = 0
                   THEN st
                   ELSE [st EXCEPT !.tRem = Append(@, i),
                                   !.score = @ + targetScore,
                                   !.credits = @ + 1,
                                   !.dead = @ \cup {tgts[i]}]
      IN  TargetLoop(i + 1, tgts, aim, st1)

\* App.checkCollisions of the marble App
MarblePass(tgts, aim) ==
    LET st0 == [tRem |-> <<>>, score |-> score, credits |-> 0, dead |-> {}]
        st == TargetLoop(1, tgts, aim, st0)
        tr == RemoveAt(tgts, st.tRem, Len(st.tRem))
    IN  [targets |-> tr.list, threw |-> tr.threw, score |-> st.score,
         gone |-> Range(tgts) \ Range(tr.list),
         pass |-> [ran |-> TRUE, score0 |-> score, level |-> 1,
                   dead |-> st.dead,
                   credits |-> st.credits, before |-> <<>>, hits |-> {},
                   threw |-> tr.threw, alive |-> Range(tgts) \ st.dead,
                   pThrew |-> FALSE]]

\* the steps of a frame of the marble App.animate in a running game:
\* updatePhysics (the world step, then the marble and target updates),
\* checkCollisions, cleanupMarbles when it is due, the hit-test source
\* request and the periodic spawn check
MarbleSteps(clean) ==
    <<"physics", "update", "collisions">>
      \o (IF clean THEN <<"cleanup">> ELSE <<>>)
      \o <<"hitTest", "spawn">>

\* App.animate of the marble App during a session. Inputs: F, the marbles
\* the physics step takes below the floor threshold, aim, for every target
\* the marble it overlaps first (0 for none), and fc and spawn for the frame
\* counter. The counter is read only through frameCounter % 30 === 0 before
\* its increment and frameCounter % 120 === 0 after it, so the model keeps
\* its class: 0 when it is a multiple of the cleanup interval, 1 otherwise;
\* spawn says that the incremented counter is a multiple of the target
\* interval, which is a multiple of the cleanup interval
MarbleAnimate ==
    /\ app = "marble"
    /\ loopAlive
    /\ session # 0
    /\ gameActive
    /\ \E F \in SUBSET {m \in physicsWorld : bodyY[m] = "ok"} :
         \E aim \in [1..Len(targets) -> 0..Len(marbles)] :
          \E fc \in {0, 1} : \E spawn \in {FALSE, fc = 0} :
           LET by1 == [m \in MarbleIds |-> IF m \in F THEN "fallen" ELSE bodyY[m]]
               ran == marbleShooter
               r == MarblePass(targets, aim)
               tgts1 == IF ran THEN r.targets ELSE targets
               clean == marbleShooter /\ frameCounter = 0
               cl == CleanupOf(by1)
               request == ~hitTestSourceRequested
               due == spawn /\ Len(tgts1) < maxTargets
           IN  /\ frameCounter = 0 => fc = 1
               /\ ~ran => \A i \in DOMAIN aim : aim[i] = 0
               /\ due => targetsCreated < MaxTargetObjects
               /\ bodyY' = by1
               /\ score' = IF ran THEN r.score ELSE score
               /\ pass' = IF ran THEN r.pass ELSE NoPass
               /\ requestedIn' = "none"
               /\ frameSteps' = [running |-> TRUE, steps |-> MarbleSteps(clean)]
               /\ spawnedSince' = spawnedSince
               /\ IF clean
                    THEN /\ marbles' = cl.marbles
                         /\ physicsWorld' = cl.physicsWorld
                         /\ inactiveMarbles' = cl.inactiveMarbles
                         /\ hidden' = cl.hidden
                         /\ scene' = cl.scene
                    ELSE UNCHANGED <<marbles, physicsWorld, inactiveMarbles,
                                     hidden, scene>>
               /\ UNCHANGED historyVars
               /\ hitTestSourceRequested' = TRUE
               /\ hitTestPending' = IF request THEN hitTestPending \cup {session}
                                               ELSE hitTestPending
               /\ frameCounter' = fc
               /\ targets' = IF due THEN Append(tgts1, targetsCreated + 1)
                                    ELSE tgts1
               /\ targetsCreated' = IF due THEN targetsCreated + 1
                                           ELSE targetsCreated
               /\ entityMeshes' =
                    (entityMeshes \ {<<"target", t>> : t \in (IF ran THEN r.gone ELSE {})})
                      \cup (IF due THEN {<<"target", targetsCreated + 1>>} ELSE {})
               /\ targetBodies' =
                    (targetBodies \ (IF ran THEN r.gone ELSE {}))
                      \cup (IF due THEN {targetsCreated + 1} ELSE {})
    /\ gameOp' = "animate"
    /\ UNCHANGED <<session, sessionsStarted, requestPending, xrRefSpace,
                   refSpacePending, hitTestSource>>
    /\ UNCHANGED <<app, gameActive, loopAlive, marbleShooter>>
    /\ UNCHANGED <<variant, creationTime, allocated, clockVars>>
    /\ UNCHANGED galagaVars

\* no MarbleShooter exists
NoShooter ==
    /\ variant = "pooled"
    /\ marbles = <<>>
    /\ inactiveMarbles = <<>>
    /\ allocated = 0
    /\ physicsWorld = {}
    /\ scene = {}
    /\ hidden = {}
    /\ creationTime = [m \in MarbleIds |-> StartTime]
    /\ bodyY = [m \in MarbleIds |-> "ok"]
    /\ now = StartTime
    /\ ticks = 0
    /\ shotLog = <<>>
    /\ shotCount = 0
    /\ lastOp = "init"
    /\ swept = <<>>

(***************************************************************************)
(* Collision checks on their own                                           *)
(***************************************************************************)

\* Vector3.distanceTo for centres on a line
distanceTo(a, b) == IF a >= b THEN a - b ELSE b - a

\* the radii handed to a check: marble, enemy or player
OtherRadii == {marbleRadius, enemyRadius, playerRadius}

\* no check is set up
CollisionIdle ==
    /\ cKind = "none"
    /\ cActive = FALSE
    /\ cMarble = FALSE
    /\ cPosA = 0
    /\ cPosB = 0
    /\ cRadB = 0
    /\ cWasActive = FALSE
    /\ cResult = "none"

\* the radius of the sphere whose method is called
RadiusA == IF cKind = "projectile" THEN projectileRadius ELSE targetRadius

\* Projectile.checkCollision(targetPosition, targetRadius)
ProjectileCheckCollision ==
    /\ cKind = "projectile"
    /\ cResult = "none"
    /\ cWasActive' = cActive
    /\ cResult' = IF checkCollision(cActive, distanceTo(cPosA, cPosB),
                                    projectileRadius, cRadB)
                    THEN "hit" ELSE "miss"
    /\ UNCHANGED <<cKind, cActive, cMarble, cPosA, cPosB, cRadB>>

\* Target.checkCollision(marble): false for no marble; a hit explodes the
\* target, which is inactive from then on
TargetCheckCollision ==
    /\ cKind = "target"
    /\ cResult = "none"
    /\ cWasActive' = cActive
    /\ LET hit == /\ cMarble
                  /\ checkCollision(cActive, distanceTo(cPosB, cPosA),
                                    targetRadius, cRadB)
       IN  /\ cResult' = IF hit THEN "hit" ELSE "miss"
           /\ cActive' = IF hit THEN FALSE ELSE cActive
    /\ UNCHANGED <<cKind, cMarble, cPosA, cPosB, cRadB>>

\* the same target is asked again (the next marble, the next frame)
TargetCheckAgain ==
    /\ cKind = "target"
    /\ cResult # "none"
    /\ cResult' = "none"
    /\ UNCHANGED <<cKind, cActive, cMarble, cPosA, cPosB, cRadB, cWasActive>>

(***************************************************************************)
(* Party environment: js/party-environment.js, part_002, part_003          *)
(***************************************************************************)
PartyApps == {"party1", "party2", "party3"}

\* what a rejected session request carries: permission denied, or a feature
\* that is not supported
SessionErrors == {"SecurityError", "NotSupportedError"}

\* the number of elements addSampleElements pushes
SampleCount == 3

\* what a hit-test query of a frame can do: return a hit with a pose, return
\* a hit whose getPose is null, return no hit, or throw
HitOutcomes == {"pose", "nopose", "empty", "throws"}

\* no frame was rendered yet in the session (hitSeen: a frame of the session
\* got a hit from its query)
NoTick == [query |-> "none", animated |-> FALSE, rendered |-> FALSE,
           hitSeen |-> FALSE]

\* no select event was handled yet
NoPlacement == [at |-> "nowhere", scale |-> 0, distance |-> 0, height |-> 0,
                cameraY |-> 0, reticle |-> FALSE, heuristic |-> FALSE,
                count0 |-> 0]

\* no party environment is running
PartyIdle ==
    /\ isARMode = FALSE
    /\ startButtonHidden = FALSE
    /\ arSupported = TRUE
    /\ isMetaQuest = FALSE
    /\ arSessionAttempts = 0
    /\ attempt = 0
    /\ retryTimer = FALSE
    /\ offerTimers = 0
    /\ requestsIssued = 0
    /\ failures = 0
    /\ surfaced = FALSE
    /\ offered = FALSE
    /\ startActions = 0
    /\ arViewerSpace = 0
    /\ viewerPending = {}
    /\ reticleVisible = FALSE
    /\ polled = 0
    /\ partyElements = <<>>
    /\ partyScene = {}
    /\ elementsCreated = 0
    /\ lastCleanupTime = 0
    /\ nonARMode = FALSE
    /\ tick = NoTick
    /\ placed = NoPlacement
    /\ sessionPlacements = 0
    /\ audioBy = {}
    /\ issued = 0

partyFixed == <<app, gameActive, score, frameCounter, loopAlive, entityMeshes,
                pass, requestedIn, frameSteps, spawnedSince, galagaVars,
                marbleAppVars,
                poolVars,                historyVars,
                collisionVars>>

\* the catch handler of startAR issues a second request
CanRetry(err) ==
    CASE app = "party2" -> attempt = 1 /\ arSessionAttempts < 2
      [] app = "party3" -> /\ attempt = 1
                           /\ err = "NotSupportedError"
                           /\ arSessionAttempts < 2
      [] OTHER -> FALSE

\* partyElements.push({mesh, type, createdAt: Date.now()})
push(list, id) == Append(list, [id |-> id, createdAt |-> now])

\* addSampleElements: disco ball, lights and dance floor
addSampleElements(list, created) ==
    list \o [k \in 1..SampleCount |-> [id |-> created + k, createdAt |-> now]]

\* createHitTestSource of part_003 asks for a source: not without a viewer
\* space, not when one was requested already
createHitTestSource(viewer, requested) == ~(viewer = 0 \/ requested)

\* render of party-environment.js: the source is requested when the flag is
\* clear; a held source is queried outside any try block, so a throwing
\* getHitTestResults, or the null that getPose returned (dereferenced after
\* reticle.visible = true), ends the call before animatePartyElements and
\* renderer.render
RenderParty1(hit) ==
    LET query == IF hitTestSource # 0 THEN hit ELSE "none"
        thrown == query \in {"throws", "nopose"}
    IN  [requested |-> TRUE,
         pending |-> IF hitTestSourceRequested THEN hitTestPending
                     ELSE hitTestPending \cup {session},
         viewerPending |-> viewerPending,
         polled |-> hitTestSource,
         reticle |-> CASE query \in {"pose", "nopose"} -> TRUE
                       [] query = "empty" -> FALSE
                       [] OTHER -> reticleVisible,
         issued |-> IF hitTestSourceRequested THEN 0 ELSE session,
         tick |-> [query |-> query, animated |-> ~thrown,
                   rendered |-> ~thrown,
                   hitSeen |-> tick.hitSeen \/ query \in {"pose", "nopose"}]]

\* render of part_003: the query runs in a try block whose handler hides
\* the reticle, and a null pose hides it too; animatePartyElements and
\* renderer.render follow in every case
RenderParty3(hit) ==
    IF xrRefSpace # 0
      THEN LET create == /\ hitTestSource = 0
                         /\ ~hitTestSourceRequested
                         /\ createHitTestSource(arViewerSpace,
                                                hitTestSourceRequested)
               query == IF hitTestSource # 0 THEN hit ELSE "none"
           IN  [requested |-> hitTestSourceRequested \/ create,
                pending |-> IF create THEN hitTestPending \cup {session}
                                      ELSE hitTestPending,
                viewerPending |-> viewerPending,
                polled |-> hitTestSource,
                reticle |-> IF query = "none" THEN reticleVisible
                            ELSE query = "pose",
                issued |-> IF create THEN session ELSE 0,
                tick |-> [query |-> query, animated |-> TRUE,
                          rendered |-> TRUE,
                          hitSeen |-> tick.hitSeen \/ query \in {"pose", "nopose"}]]
      ELSE [requested |-> hitTestSourceRequested,
            pending |-> hitTestPending,
            viewerPending |-> viewerPending \cup {session},
            polled |-> 0,
            reticle |-> reticleVisible,
            issued |-> 0,
            tick |-> [query |-> "none", animated |-> TRUE,
                      rendered |-> TRUE, hitSeen |-> tick.hitSeen]]

\* onSelect of part_002 falls back to a placement in front of the camera:
\* no hit-test source, and a Quest-class user agent
HeuristicPolicy == app = "party2" /\ hitTestSource = 0 /\ isMetaQuest

\* an onSelect that places everywhere
CanPlaceAlways == TRUE

\* the placement test of onSelect
CanPlace ==
    IF app = "party2"
      THEN reticleVisible \/ HeuristicPolicy
      ELSE reticleVisible

\* onSelect starts the audio input after its push: when the list, which no
\* session clears, has one element
startsAudio(length) == length = 1

\* camera.position.y of a select event, in tenths of a unit
CameraHeights == {0, 8, 9, 16}

\* Math.max
Max2(a, b) == IF a >= b THEN a ELSE b

\* where onSelect puts its element with the camera at height y: at the
\* reticle's matrix, scaled by createPartyElement, or (part_002 without a
\* visible reticle) in front of the camera, no lower than the least height
Placement(y) ==
    [at |-> IF ~CanPlace THEN "nowhere"
            ELSE IF reticleVisible THEN "reticle" ELSE "front",
     scale |-> IF CanPlace /\ reticleVisible THEN elementScale ELSE 0,
     distance |-> IF CanPlace /\ ~reticleVisible THEN placementDistance ELSE 0,
     height |-> IF CanPlace /\ ~reticleVisible
                  THEN Max2(minPlacementHeight, y - cameraDrop) ELSE 0,
     cameraY |-> y,
     reticle |-> reticleVisible,
     heuristic |-> HeuristicPolicy,
     count0 |-> Len(partyElements)]

\* a sort that puts x before the elements of its age
InsertBeforeEqual(x, s) ==
    LET k == Cardinality({i \in DOMAIN s : s[i].createdAt < x.createdAt})
    IN  SubSeq(s, 1, k) \o <<x>> \o SubSeq(s, k + 1, Len(s))

\* Array.prototype.sort by createdAt, which is stable: x, the last element,
\* goes behind the elements of the sorted rest that are not younger
InsertByCreatedAt(x, s) ==
    LET k == Cardinality({i \in DOMAIN s : s[i].createdAt <= x.createdAt})
    IN  SubSeq(s, 1, k) \o <<x>> \o SubSeq(s, k + 1, Len(s))

RECURSIVE SortByCreatedAt(_)
SortByCreatedAt(s) ==
    IF s = <<>> THEN <<>>
    ELSE InsertByCreatedAt(s[Len(s)], SortByCreatedAt(Pop(s)))

\* manageMemory(timestamp) of part_002 (no caller of it is in the file)
manageMemory(timestamp) ==
    LET run == \/ lastCleanupTime = 0
               \/ timestamp - lastCleanupTime > ELEMENT_CLEANUP_INTERVAL
        over == run /\ Len(partyElements) > MAX_PARTY_ELEMENTS
        sorted == SortByCreatedAt(partyElements)
        n == Len(partyElements) - MAX_PARTY_ELEMENTS
    IN  [lastCleanupTime |-> IF run THEN timestamp ELSE lastCleanupTime,
         partyElements |-> IF over THEN SubSeq(sorted, n + 1, Len(sorted))
                                   ELSE partyElements,
         partyScene |-> IF over THEN partyScene \ {sorted[i].id : i \in 1..n}
                                ELSE partyScene]

\* startAR: the start button asks for an immersive-ar session; the button
\* is hidden, the attempt counter of part_002 and part_003 goes up
PartyStartAR ==
    /\ app \in PartyApps
    /\ arSupported
    /\ ~startButtonHidden
    /\ session = 0
    /\ ~requestPending
    /\ ~retryTimer
    /\ startActions < MaxStartActions
    /\ sessionsStarted < MaxSessions
    /\ requestPending' = TRUE
    /\ isARMode' = TRUE
    /\ startButtonHidden' = TRUE
    /\ arSessionAttempts' = IF app = "party1" THEN arSessionAttempts
                            ELSE arSessionAttempts + 1
    /\ attempt' = 1
    /\ requestsIssued' = 1
    /\ failures' = 0
    /\ surfaced' = FALSE
    /\ offered' = FALSE
    /\ startActions' = startActions + 1
    /\ gameOp' = "startAR"
    /\ UNCHANGED <<session, sessionsStarted, xrRefSpace, refSpacePending,
                   hitTestSource, hitTestSourceRequested, hitTestPending,
                   arSupported, isMetaQuest, retryTimer, offerTimers,
                   arViewerSpace, viewerPending, reticleVisible, polled,
                   partyElements, partyScene, elementsCreated,
                   lastCleanupTime, nonARMode, now, ticks, tick, placed,
                   sessionPlacements, audioBy>>
    /\ issued' = 0
    /\ UNCHANGED partyFixed

\* onSessionStarted: the session is installed; part_003 resets its handles
\* and asks for the reference spaces (getXRReferenceSpaces)
PartySessionStarted ==
    /\ app \in PartyApps
    /\ requestPending
    /\ session' = sessionsStarted + 1
    /\ sessionsStarted' = sessionsStarted + 1
    /\ requestPending' = FALSE
    /\ xrRefSpace' = IF app = "party3" THEN 0 ELSE xrRefSpace
    /\ hitTestSource' = IF app = "party3" THEN 0 ELSE hitTestSource
    /\ hitTestSourceRequested' = IF app = "party3" THEN FALSE
                                 ELSE hitTestSourceRequested
    /\ attempt' = 0
    /\ sessionPlacements' = 0
    /\ tick' = NoTick
    /\ audioBy' = {}
    /\ arViewerSpace' = IF app = "party3" THEN 0 ELSE arViewerSpace
    /\ viewerPending' = IF app = "party3"
                          THEN viewerPending \cup {sessionsStarted + 1}
                          ELSE viewerPending
    /\ gameOp' = "onSessionStarted"
    /\ UNCHANGED <<refSpacePending, hitTestPending, isARMode,
                   startButtonHidden, arSupported, isMetaQuest,
                   arSessionAttempts, retryTimer, offerTimers,
                   requestsIssued, failures, surfaced, offered, startActions,
                   reticleVisible, polled, partyElements, partyScene,
                   elementsCreated, lastCleanupTime, nonARMode, now, ticks, placed>>
    /\ issued' = 0
    /\ UNCHANGED partyFixed

\* the pending session request is rejected with error err: the catch
\* handler of startAR (party-environment.js has none). part_002 retries when
\* the attempt counter is below 2 and counts the retry; part_003 retries
\* only a NotSupportedError and does not count it; otherwise, and when the
\* retry fails, handleARSessionError runs
PartySessionFailed(err) ==
    /\ app \in PartyApps
    /\ requestPending
    /\ err \in SessionErrors
    /\ LET canRetry == CanRetry(err)
           handled == app # "party1" /\ ~canRetry
           offer == handled /\ arSessionAttempts >= 2
       IN
       /\ requestPending' = (app = "party3" /\ canRetry)
       /\ isARMode' = IF handled THEN FALSE ELSE isARMode
       /\ startButtonHidden' = IF handled THEN FALSE ELSE startButtonHidden
       /\ arSessionAttempts' = IF app = "party2" /\ canRetry
                                 THEN arSessionAttempts + 1
                                 ELSE arSessionAttempts
       /\ attempt' = IF app = "party3" /\ canRetry THEN 2 ELSE 0
       /\ retryTimer' = (app = "party2" /\ canRetry)
       /\ offerTimers' = IF offer THEN offerTimers + 1 ELSE offerTimers
       /\ requestsIssued' = IF app = "party3" /\ canRetry THEN requestsIssued + 1
                            ELSE requestsIssued
       /\ failures' = failures + 1
       /\ surfaced' = (surfaced \/ handled)
       /\ offered' = (offered \/ offer)
       /\ gameOp' = IF handled THEN "handleARSessionError" ELSE "sessionFailed"
    /\ UNCHANGED <<session, sessionsStarted, xrRefSpace, refSpacePending,
                   hitTestSource, hitTestSourceRequested, hitTestPending,
                   arSupported, isMetaQuest, startActions, arViewerSpace,
                   viewerPending, reticleVisible, polled, partyElements,
                   partyScene, elementsCreated, lastCleanupTime, nonARMode,
                   now, ticks, tick, placed, sessionPlacements, audioBy>>
    /\ issued' = 0
    /\ UNCHANGED partyFixed

\* the timeout of part_002's catch handler fires: the request with no
\* features at all
PartyRetryTimer ==
    /\ app = "party2"
    /\ retryTimer
    /\ requestPending' = TRUE
    /\ attempt' = 2
    /\ retryTimer' = FALSE
    /\ requestsIssued' = requestsIssued + 1
    /\ gameOp' = "retry"
    /\ UNCHANGED <<session, sessionsStarted, xrRefSpace, refSpacePending,
                   hitTestSource, hitTestSourceRequested, hitTestPending,
                   isARMode, startButtonHidden, arSupported, isMetaQuest,
                   arSessionAttempts, offerTimers, failures, surfaced,
                   offered, startActions, arViewerSpace, viewerPending,
                   reticleVisible, polled, partyElements, partyScene,
                   elementsCreated, lastCleanupTime, nonARMode, now, ticks,
                   tick, placed, sessionPlacements, audioBy>>
    /\ issued' = 0
    /\ UNCHANGED partyFixed

\* the confirm dialog of handleARSessionError: accepting runs
\* initNonARMode(true), that is startNonARMode(); declining resets the
\* attempt counter
PartyConfirm(accept) ==
    /\ app \in {"party2", "party3"}
    /\ offerTimers > 0
    /\ accept => elementsCreated + SampleCount <= MaxElementObjects
    /\ isARMode' = IF accept THEN FALSE ELSE isARMode
    /\ startButtonHidden' = IF accept THEN TRUE ELSE startButtonHidden
    /\ arSessionAttempts' = IF accept THEN arSessionAttempts ELSE 0
    /\ offerTimers' = offerTimers - 1
    /\ partyElements' = IF accept THEN addSampleElements(partyElements, elementsCreated)
                                  ELSE partyElements
    /\ partyScene' = IF accept
                       THEN partyScene \cup (elementsCreated + 1)..(elementsCreated + SampleCount)
                       ELSE partyScene
    /\ elementsCreated' = IF accept THEN elementsCreated + SampleCount
                                    ELSE elementsCreated
    /\ nonARMode' = (nonARMode \/ accept)
    /\ gameOp' = "confirm"
    /\ UNCHANGED <<session, sessionsStarted, requestPending, xrRefSpace,
                   refSpacePending, hitTestSource, hitTestSourceRequested,
                   hitTestPending, arSupported, isMetaQuest, attempt,
                   retryTimer, requestsIssued, failures, surfaced, offered,
                   startActions, arViewerSpace, viewerPending,
                   reticleVisible, polled, lastCleanupTime, now, ticks, tick,
                   placed, sessionPlacements, audioBy>>
    /\ issued' = 0
    /\ UNCHANGED partyFixed

\* getXRReferenceSpaces of part_003, first step: the viewer space of session
\* s is stored and the local space requested
PartyViewerSpaceResolved(s) ==
    /\ app = "party3"
    /\ s \in viewerPending
    /\ refSpacePending' = refSpacePending \cup {s}
    /\ arViewerSpace' = s
    /\ viewerPending' = viewerPending \ {s}
    /\ gameOp' = "viewerSpace"
    /\ UNCHANGED <<session, sessionsStarted, requestPending, xrRefSpace,
                   hitTestSource, hitTestSourceRequested, hitTestPending,
                   isARMode, startButtonHidden, arSupported, isMetaQuest,
                   arSessionAttempts, attempt, retryTimer, offerTimers,
                   requestsIssued, failures, surfaced, offered, startActions,
                   reticleVisible, polled, partyElements, partyScene,
                   elementsCreated, lastCleanupTime, nonARMode, now, ticks,
                   tick, placed, sessionPlacements, audioBy>>
    /\ issued' = 0
    /\ UNCHANGED partyFixed

\* getXRReferenceSpaces of part_003, second step: the local space of session
\* s is stored and createHitTestSource(session) called
PartyLocalSpaceResolved(s) ==
    /\ app = "party3"
    /\ s \in refSpacePending
    /\ LET create == createHitTestSource(arViewerSpace, hitTestSourceRequested)
       IN
       /\ xrRefSpace' = s
       /\ refSpacePending' = refSpacePending \ {s}
       /\ hitTestSourceRequested' = (hitTestSourceRequested \/ create)
       /\ hitTestPending' = IF create THEN hitTestPending \cup {s} ELSE hitTestPending
       /\ issued' = IF create THEN s ELSE 0
       /\ gameOp' = "localSpace"
    /\ UNCHANGED <<session, sessionsStarted, requestPending, hitTestSource,
                   isARMode, startButtonHidden, arSupported, isMetaQuest,
                   arSessionAttempts, attempt, retryTimer, offerTimers,
                   requestsIssued, failures, surfaced, offered, startActions,
                   arViewerSpace, viewerPending, reticleVisible, polled,
                   partyElements, partyScene, elementsCreated,
                   lastCleanupTime, nonARMode, now, ticks, tick, placed,
                   sessionPlacements, audioBy>>
    /\ UNCHANGED partyFixed

\* a reference-space request of an ended session is rejected: the catch
\* handler of part_003 calls end() on the session that has ended already
PartySpaceDropped(s) ==
    /\ app = "party3"
    /\ s # session
    /\ s \in viewerPending \cup refSpacePending
    /\ refSpacePending' = refSpacePending \ {s}
    /\ viewerPending' = viewerPending \ {s}
    /\ gameOp' = "dropped"
    /\ UNCHANGED <<session, sessionsStarted, requestPending, xrRefSpace,
                   hitTestSource, hitTestSourceRequested, hitTestPending,
                   isARMode, startButtonHidden, arSupported, isMetaQuest,
                   arSessionAttempts, attempt, retryTimer, offerTimers,
                   requestsIssued, failures, surfaced, offered, startActions,
                   arViewerSpace, reticleVisible, polled, partyElements,
                   partyScene, elementsCreated, lastCleanupTime, nonARMode,
                   now, ticks, tick, placed, sessionPlacements, audioBy>>
    /\ issued' = 0
    /\ UNCHANGED partyFixed

\* requestHitTestSource of session s resolves: the source is stored, whether
\* or not s is still the session
PartyHitTestResolved(s) ==
    /\ app \in {"party1", "party3"}
    /\ s \in hitTestPending
    /\ hitTestSource' = s
    /\ hitTestPending' = hitTestPending \ {s}
    /\ gameOp' = "hitTestSource"
    /\ UNCHANGED <<session, sessionsStarted, requestPending, xrRefSpace,
                   refSpacePending, hitTestSourceRequested, isARMode,
                   startButtonHidden, arSupported, isMetaQuest,
                   arSessionAttempts, attempt, retryTimer, offerTimers,
                   requestsIssued, failures, surfaced, offered, startActions,
                   arViewerSpace, viewerPending, reticleVisible, polled,
                   partyElements, partyScene, elementsCreated,
                   lastCleanupTime, nonARMode, now, ticks, tick, placed,
                   sessionPlacements, audioBy>>
    /\ issued' = 0
    /\ UNCHANGED partyFixed

\* requestHitTestSource of session s is rejected: part_003 clears the
\* requested flag to allow a retry, party-environment.js has no handler
PartyHitTestRejected(s) ==
    /\ app \in {"party1", "party3"}
    /\ s \in hitTestPending
    /\ hitTestSourceRequested' = IF app = "party3" THEN FALSE
                                 ELSE hitTestSourceRequested
    /\ hitTestPending' = hitTestPending \ {s}
    /\ gameOp' = "hitTestRejected"
    /\ UNCHANGED <<session, sessionsStarted, requestPending, xrRefSpace,
                   refSpacePending, hitTestSource, isARMode,
                   startButtonHidden, arSupported, isMetaQuest,
                   arSessionAttempts, attempt, retryTimer, offerTimers,
                   requestsIssued, failures, surfaced, offered, startActions,
                   arViewerSpace, viewerPending, reticleVisible, polled,
                   partyElements, partyScene, elementsCreated,
                   lastCleanupTime, nonARMode, now, ticks, tick, placed,
                   sessionPlacements, audioBy>>
    /\ issued' = 0
    /\ UNCHANGED partyFixed

\* render(timestamp, frame) with an XR frame, which the loop gets during a
\* session. hit: what the hit-test query of this frame does, when the frame
\* makes one (the input is fixed to "empty" when it makes none)
PartyRender(hit) ==
    /\ app \in {"party1", "party3"}
    /\ session # 0
    /\ isARMode
    /\ hit \in HitOutcomes
    /\ hitTestSource = 0 => hit = "empty"
    /\ (app = "party3" /\ xrRefSpace = 0) => hit = "empty"
    /\ LET r == IF app = "party1" THEN RenderParty1(hit) ELSE RenderParty3(hit)
       IN
       /\ hitTestSourceRequested' = r.requested
       /\ hitTestPending' = r.pending
       /\ viewerPending' = r.viewerPending
       /\ reticleVisible' = r.reticle
       /\ polled' = r.polled
       /\ tick' = r.tick
       /\ issued' = r.issued
       /\ gameOp' = "render"
    /\ UNCHANGED <<session, sessionsStarted, requestPending, xrRefSpace,
                   refSpacePending, hitTestSource, isARMode,
                   startButtonHidden, arSupported, isMetaQuest,
                   arSessionAttempts, attempt, retryTimer, offerTimers,
                   requestsIssued, failures, surfaced, offered, startActions,
                   arViewerSpace, partyElements, partyScene, elementsCreated,
                   lastCleanupTime, nonARMode, now, ticks, placed,
                   sessionPlacements, audioBy>>
    /\ UNCHANGED partyFixed

\* onSessionEnded: the start button is shown again; part_002 and part_003
\* reset their handles, party-environment.js resets nothing
PartySessionEnded ==
    /\ app \in PartyApps
    /\ session # 0
    /\ session' = 0
    /\ xrRefSpace' = IF app = "party1" THEN xrRefSpace ELSE 0
    /\ hitTestSource' = IF app = "party1" THEN hitTestSource ELSE 0
    /\ hitTestSourceRequested' = IF app = "party1" THEN hitTestSourceRequested
                                 ELSE FALSE
    /\ startButtonHidden' = FALSE
    /\ arViewerSpace' = IF app = "party1" THEN arViewerSpace ELSE 0
    /\ gameOp' = "onSessionEnded"
    /\ UNCHANGED <<sessionsStarted, requestPending, refSpacePending,
                   hitTestPending, isARMode, arSupported, isMetaQuest,
                   arSessionAttempts, attempt, retryTimer, offerTimers,
                   requestsIssued, failures, surfaced, offered, startActions,
                   viewerPending, reticleVisible, polled, partyElements,
                   partyScene, elementsCreated, lastCleanupTime, nonARMode,
                   now, ticks, tick, placed, sessionPlacements, audioBy>>
    /\ issued' = 0
    /\ UNCHANGED partyFixed

\* onSelect: the select event of the session's controller; an element is
\* placed when CanPlace says so and pushed on partyElements. y: the height
\* of the camera, which only the placement without a reticle reads
PartyOnSelect(y) ==
    /\ app \in PartyApps
    /\ session # 0
    /\ isARMode
    /\ y \in CameraHeights
    /\ (~CanPlace \/ reticleVisible) => y = 16
    /\ placed' = Placement(y)
    /\ sessionPlacements' = IF CanPlace THEN Min2(sessionPlacements + 1, 2)
                                       ELSE sessionPlacements
    /\ audioBy' = IF CanPlace /\ startsAudio(Len(partyElements) + 1)
                     THEN audioBy \cup {Min2(sessionPlacements + 1, 2)}
                     ELSE audioBy
    /\ CanPlace => elementsCreated < MaxElementObjects
    /\ partyElements' = IF CanPlace THEN push(partyElements, elementsCreated + 1)
                                   ELSE partyElements
    /\ partyScene' = IF CanPlace THEN partyScene \cup {elementsCreated + 1}
                                ELSE partyScene
    /\ elementsCreated' = IF CanPlace THEN elementsCreated + 1
                                     ELSE elementsCreated
    /\ gameOp' = "onSelect"
    /\ UNCHANGED <<session, sessionsStarted, requestPending, xrRefSpace,
                   refSpacePending, hitTestSource, hitTestSourceRequested,
                   hitTestPending, isARMode, startButtonHidden, arSupported,
                   isMetaQuest, arSessionAttempts, attempt, retryTimer,
                   offerTimers, requestsIssued, failures, surfaced, offered,
                   startActions, arViewerSpace, viewerPending,
                   reticleVisible, polled, lastCleanupTime, nonARMode, now,
                   ticks, tick>>
    /\ issued' = 0
    /\ UNCHANGED partyFixed

\* startNonARMode from the start button of a device without AR: the
\* fallback environment with its sample elements
PartyStartNonARMode ==
    /\ app \in PartyApps
    /\ ~arSupported
    /\ ~startButtonHidden
    /\ ~nonARMode
    /\ elementsCreated + SampleCount <= MaxElementObjects
    /\ isARMode' = FALSE
    /\ startButtonHidden' = TRUE
    /\ partyElements' = addSampleElements(partyElements, elementsCreated)
    /\ partyScene' = partyScene \cup (elementsCreated + 1)..(elementsCreated + SampleCount)
    /\ elementsCreated' = elementsCreated + SampleCount
    /\ nonARMode' = TRUE
    /\ gameOp' = "startNonARMode"
    /\ UNCHANGED <<session, sessionsStarted, requestPending, xrRefSpace,
                   refSpacePending, hitTestSource, hitTestSourceRequested,
                   hitTestPending, arSupported, isMetaQuest,
                   arSessionAttempts, attempt, retryTimer, offerTimers,
                   requestsIssued, failures, surfaced, offered, startActions,
                   arViewerSpace, viewerPending, reticleVisible, polled,
                   lastCleanupTime, now, ticks, tick, placed,
                   sessionPlacements, audioBy>>
    /\ issued' = 0
    /\ UNCHANGED partyFixed

\* onMouseDown outside AR mode with the ray meeting the floor:
\* placeElementAtPoint
PartyMouseDown ==
    /\ app \in PartyApps
    /\ ~isARMode
    /\ nonARMode
    /\ elementsCreated < MaxElementObjects
    /\ partyElements' = push(partyElements, elementsCreated + 1)
    /\ partyScene' = partyScene \cup {elementsCreated + 1}
    /\ elementsCreated' = elementsCreated + 1
    /\ gameOp' = "placeElementAtPoint"
    /\ UNCHANGED <<session, sessionsStarted, requestPending, xrRefSpace,
                   refSpacePending, hitTestSource, hitTestSourceRequested,
                   hitTestPending, isARMode, startButtonHidden, arSupported,
                   isMetaQuest, arSessionAttempts, attempt, retryTimer,
                   offerTimers, requestsIssued, failures, surfaced, offered,
                   startActions, arViewerSpace, viewerPending,
                   reticleVisible, polled, lastCleanupTime, nonARMode, now,
                   ticks, tick, placed, sessionPlacements, audioBy>>
    /\ issued' = 0
    /\ UNCHANGED partyFixed

\* manageMemory(timestamp) of part_002, with the time since the page was
\* loaded as timestamp
PartyManageMemory ==
    /\ app = "party2"
    /\ LET r == manageMemory(now - StartTime)
       IN
       /\ partyElements' = r.partyElements
       /\ partyScene' = r.partyScene
       /\ lastCleanupTime' = r.lastCleanupTime
       /\ gameOp' = "manageMemory"
    /\ UNCHANGED <<session, sessionsStarted, requestPending, xrRefSpace,
                   refSpacePending, hitTestSource, hitTestSourceRequested,
                   hitTestPending, isARMode, startButtonHidden, arSupported,
                   isMetaQuest, arSessionAttempts, attempt, retryTimer,
                   offerTimers, requestsIssued, failures, surfaced, offered,
                   startActions, arViewerSpace, viewerPending,
                   reticleVisible, polled, elementsCreated, nonARMode, now,
                   ticks, tick, placed, sessionPlacements, audioBy>>
    /\ issued' = 0
    /\ UNCHANGED partyFixed

\* wall-clock time passes (it is read by manageMemory only)
PartyAdvance(d) ==
    /\ app = "party2"
    /\ ticks < MaxTicks
    /\ now' = now + d
    /\ ticks' = ticks + 1
    /\ gameOp' = "clock"
    /\ UNCHANGED <<session, sessionsStarted, requestPending, xrRefSpace,
                   refSpacePending, hitTestSource, hitTestSourceRequested,
                   hitTestPending, isARMode, startButtonHidden, arSupported,
                   isMetaQuest, arSessionAttempts, attempt, retryTimer,
                   offerTimers, requestsIssued, failures, surfaced, offered,
                   startActions, arViewerSpace, viewerPending,
                   reticleVisible, polled, partyElements, partyScene,
                   elementsCreated, lastCleanupTime, nonARMode, tick, placed,
                   sessionPlacements, audioBy>>
    /\ issued' = 0
    /\ UNCHANGED partyFixed

(***************************************************************************)
(* Specifications                                                          *)
(***************************************************************************)
GameInit ==
    /\ app \in {"marble", "galaga"}
    /\ NoShooter
    /\ AppInit
    /\ CollisionIdle
    /\ PartyIdle

GameNext ==
    \/ startXR /\ UNCHANGED notGameVars
    \/ SessionRejected /\ UNCHANGED notGameVars
    \/ GalagaSessionStarted /\ UNCHANGED notGameVars
    \/ MarbleSessionStarted /\ UNCHANGED notGameVars
    \/ \E s \in 1..MaxSessions : RefSpaceResolved(s) /\ UNCHANGED notGameVars
    \/ \E s \in 1..MaxSessions : RequestDropped(s) /\ UNCHANGED notGameVars
    \/ \E s \in 1..MaxSessions : HitTestResolved(s) /\ UNCHANGED notGameVars
    \/ GalagaSessionEnded /\ UNCHANGED notGameVars
    \/ MarbleSessionEnded /\ UNCHANGED notGameVars
    \/ ScanComplete /\ UNCHANGED notGameVars
    \/ SpawnTimerFires /\ UNCHANGED notGameVars
    \/ GalagaSelect /\ UNCHANGED notGameVars
    \/ GalagaAnimate /\ UNCHANGED notGameVars
    \/ InvulnerabilityEnds /\ UNCHANGED notGameVars
    \/ RestartClick /\ UNCHANGED notGameVars
    \/ MarbleSelect /\ UNCHANGED notGameVars
    \/ MarbleAnimate /\ UNCHANGED notGameVars
    \/ GameAdvance(StepAt(ticks, projectileLifespan)) /\ UNCHANGED notGameVars

SpecGame == GameInit /\ [][GameNext]_vars

\* the Galaga App in a game at any level, with any wave size and any number
\* of enemies alive, and spawnEnemyWave() calls due
InitSpawn ==
    /\ app = "galaga"
    /\ NoShooter
    /\ CollisionIdle
    /\ PartyIdle
    /\ session = 0
    /\ sessionsStarted = 0
    /\ requestPending = FALSE
    /\ xrRefSpace = 0
    /\ refSpacePending = {}
    /\ hitTestSource = 0
    /\ hitTestSourceRequested = FALSE
    /\ hitTestPending = {}
    /\ gameActive = TRUE
    /\ score = 0
    /\ frameCounter = 0
    /\ loopAlive = TRUE
    /\ marbleShooter = FALSE
    /\ targets = <<>>
    /\ targetsCreated = 0
    /\ targetBodies = {}
    /\ player = 0
    /\ playersCreated = 0
    /\ invulnerable = FALSE
    /\ playerLastFire = 0
    /\ \E n \in 0..MaxEnemyList :
         /\ enemies = [k \in 1..n |-> NewEnemy(k, 1)]
         /\ enemiesCreated = n
         /\ entityMeshes = {<<"enemy", k>> : k \in 1..n}
    /\ projectiles = <<>>
    /\ projectilesCreated = 0
    /\ level \in 1..MaxSpawnLevel
    /\ lives = initialLives
    /\ enemiesPerWave \in 1..MaxWaveSize
    /\ enemyWaveCount \in {0, 1}
    /\ roomScanned = TRUE
    /\ scanTimers = 0
    /\ spawnTimers \in {1, 2}
    /\ gameOvers = 0
    /\ gameOp = "constructor"
    /\ pass = NoPass
    /\ requestedIn = "none"
    /\ frameSteps = NoFrame
    /\ spawnedSince = FALSE

SpawnNext ==
    \/ SpawnWave /\ UNCHANGED notGameVars

SpecSpawn == InitSpawn /\ [][SpawnNext]_vars

ShooterNext ==
    \/ shoot /\ UNCHANGED notShooterVars
    \/ cleanupMarbles /\ UNCHANGED notShooterVars
    \/ \E m \in MarbleIds : Fall(m) /\ UNCHANGED notShooterVars
    \/ Advance(StepAt(ticks, marbleLifetime)) /\ UNCHANGED notShooterVars

InitShooter ==
    /\ app = "none"
    /\ ShooterInit
    /\ AppInit
    /\ CollisionIdle
    /\ PartyIdle

SpecShooter == InitShooter /\ [][ShooterNext]_vars

InitCollision ==
    /\ app = "none"
    /\ NoShooter
    /\ AppInit
    /\ cKind \in {"projectile", "target"}
    /\ cActive \in BOOLEAN
    /\ cMarble \in BOOLEAN
    /\ cKind = "projectile" => cMarble
    /\ cPosA \in 0..MaxCoord
    /\ cPosB \in 0..MaxCoord
    /\ cRadB \in OtherRadii
    /\ cWasActive = FALSE
    /\ cResult = "none"
    /\ PartyIdle

CollisionNext ==
    \/ ProjectileCheckCollision /\ UNCHANGED notCollisionVars
    \/ TargetCheckCollision /\ UNCHANGED notCollisionVars
    \/ TargetCheckAgain /\ UNCHANGED notCollisionVars

SpecCollision == InitCollision /\ [][CollisionNext]_vars

InitParty ==
    /\ app \in PartyApps
    /\ NoShooter
    /\ AppInit
    /\ CollisionIdle
    /\ isARMode = FALSE
    /\ startButtonHidden = FALSE
    /\ arSupported \in BOOLEAN
    /\ isMetaQuest \in BOOLEAN
    /\ app # "party2" => ~isMetaQuest
    /\ arSessionAttempts = 0
    /\ attempt = 0
    /\ retryTimer = FALSE
    /\ offerTimers = 0
    /\ requestsIssued = 0
    /\ failures = 0
    /\ surfaced = FALSE
    /\ offered = FALSE
    /\ startActions = 0
    /\ arViewerSpace = 0
    /\ viewerPending = {}
    /\ reticleVisible = FALSE
    /\ polled = 0
    /\ partyElements = <<>>
    /\ partyScene = {}
    /\ elementsCreated = 0
    /\ lastCleanupTime = 0
    /\ nonARMode = FALSE
    /\ tick = NoTick
    /\ placed = NoPlacement
    /\ sessionPlacements = 0
    /\ audioBy = {}
    /\ issued = 0

PartyNext ==
    \/ PartyStartAR
    \/ PartySessionStarted
    \/ \E err \in SessionErrors : PartySessionFailed(err)
    \/ PartyRetryTimer
    \/ \E accept \in BOOLEAN : PartyConfirm(accept)
    \/ \E s \in 1..MaxSessions : PartyViewerSpaceResolved(s)
    \/ \E s \in 1..MaxSessions : PartyLocalSpaceResolved(s)
    \/ \E s \in 1..MaxSessions : PartySpaceDropped(s)
    \/ \E s \in 1..MaxSessions : PartyHitTestResolved(s)
    \/ \E s \in 1..MaxSessions : PartyHitTestRejected(s)
    \/ \E hit \in HitOutcomes : PartyRender(hit)
    \/ PartySessionEnded
    \/ \E y \in CameraHeights : PartyOnSelect(y)
    \/ PartyStartNonARMode
    \/ PartyMouseDown
    \/ PartyManageMemory
    \/ PartyAdvance(StepAt(ticks, ELEMENT_CLEANUP_INTERVAL))

SpecParty == InitParty /\ [][PartyNext]_vars

\* the partyElements lists manageMemory is applied to: element i is the
\* i-th one pushed; createdAt is Date.now() at the push, a wall clock that
\* can be set back between two pushes
ElementLists ==
    UNION {[1..n -> StartTime..(StartTime + MaxAge)] : n \in 0..MaxListLen}

\* part_002 with a list of pushed elements, each with its mesh in the scene
InitMemory ==
    /\ app = "party2"
    /\ NoShooter
    /\ AppInit
    /\ CollisionIdle
    /\ isARMode = FALSE
    /\ startButtonHidden = FALSE
    /\ arSupported = TRUE
    /\ isMetaQuest = FALSE
    /\ arSessionAttempts = 0
    /\ attempt = 0
    /\ retryTimer = FALSE
    /\ offerTimers = 0
    /\ requestsIssued = 0
    /\ failures = 0
    /\ surfaced = FALSE
    /\ offered = FALSE
    /\ startActions = 0
    /\ arViewerSpace = 0
    /\ viewerPending = {}
    /\ reticleVisible = FALSE
    /\ polled = 0
    /\ \E ages \in ElementLists :
         /\ partyElements = [i \in DOMAIN ages |->
                               [id |-> i, createdAt |-> ages[i]]]
         /\ partyScene = DOMAIN ages
         /\ elementsCreated = Len(ages)
    /\ lastCleanupTime = 0
    /\ nonARMode = FALSE
    /\ tick = NoTick
    /\ placed = NoPlacement
    /\ sessionPlacements = 0
    /\ audioBy = {}
    /\ issued = 0

MemoryNext ==
    \/ PartyManageMemory
    \/ PartyAdvance(StepAt(ticks, ELEMENT_CLEANUP_INTERVAL))

SpecMemory == InitMemory /\ [][MemoryNext]_vars

(***************************************************************************)
(* Properties                                                              *)
(***************************************************************************)

\* C1: after more than maxMarbles shoot() calls with no cleanupMarbles() in
\* between, the active list has exactly maxMarbles entries and they are the
\* marbles of the maxMarbles most recent shoot() calls, in shoot order.
C1_FifoRetention ==
    shotCount > maxMarbles =>
        /\ Len(marbles) = maxMarbles
        /\ marbles = shotLog

\* C7: every marble body in the physics world belongs to a marble of the
\* active list, and every marble mesh in the scene belongs to a marble the
\* pool tracks (active or inactive).
C7_BodiesAndMeshesTracked ==
    /\ physicsWorld \subseteq Range(marbles)
    /\ scene \subseteq Range(marbles) \cup Range(inactiveMarbles)

\* C2: in the state onXRSessionEnded (with cleanupScene) leaves, the enemy,
\* projectile and target lists are empty, player and marbleShooter are null,
\* no mesh of a player, enemy, projectile, target or marble is attached any
\* more, and no marble or target body is in the physics world.
C2_SessionEndReleasesAll ==
    gameOp = "onXRSessionEnded" =>
        /\ enemies = <<>>
        /\ projectiles = <<>>
        /\ targets = <<>>
        /\ player = 0
        /\ ~marbleShooter
        /\ entityMeshes = {}
        /\ scene = {}
        /\ physicsWorld = {}
        /\ targetBodies = {}

\* C5: after a checkCollisions pass, every enemy or target the pass brought
\* to health 0 has left the active list, and the score has grown by the
\* per-kill value (100 x level for an enemy, 10 for a target) once for every
\* such entity.
C5_KillRemovedAndScoredOnce ==
    pass.ran =>
        /\ \A d \in pass.dead :
              d \notin (IF app = "galaga" THEN Ids(enemies) ELSE Range(targets))
        /\ score = pass.score0
                     + (IF app = "galaga" THEN killScore * pass.level
                                          ELSE targetScore)
                         * Cardinality(pass.dead)

\* C8, marbles: cleanupMarbles() at time now keeps exactly the marbles of
\* the active list whose age is at most marbleLifetime and whose body is
\* not below the floor threshold.
C8_MarbleLifetime ==
    lastOp = "cleanup" =>
        \A i \in DOMAIN swept :
            (swept[i] \in Range(marbles))
              <=> (/\ now - creationTime[swept[i]] <= marbleLifetime
                   /\ bodyY[swept[i]] # "fallen")

\* C8, projectiles: the pass of a Galaga frame at time now removes every
\* projectile whose age is above projectileLifespan and keeps every
\* projectile of age at most projectileLifespan that hit nothing.
C8_ProjectileLifetime ==
    (app = "galaga" /\ pass.ran) =>
        \A i \in DOMAIN pass.before :
            LET p == pass.before[i] IN
            /\ now - p.creationTime > projectileLifespan
                  => p.id \notin Ids(projectiles)
            /\ (now - p.creationTime <= projectileLifespan
                   /\ p.id \notin pass.hits)
                  => p.id \in Ids(projectiles)

\* C8: a cleanup pass at time now removes a marble or projectile of age
\* above its lifetime (10000 ms, 2000 ms) and keeps one of age at most its
\* lifetime; a marble is also removed when its body is below y = -10.
C8_LifetimeRemoval == C8_MarbleLifetime /\ C8_ProjectileLifetime

\* C9: Projectile.checkCollision and Target.checkCollision return a hit
\* exactly when the receiver was active and the centre distance is below the
\* sum of the radii: touching spheres and farther ones are no hit, any
\* closer active pair is, and the verdict is the same with the roles of the
\* two spheres swapped.
C9_StrictSymmetricCollision ==
    (cResult # "none" /\ cMarble) =>
        LET d == distanceTo(cPosA, cPosB)
            swapped == checkCollision(cWasActive, distanceTo(cPosB, cPosA),
                                      cRadB, RadiusA)
        IN  /\ d >= RadiusA + cRadB => cResult = "miss"
            /\ ~cWasActive => cResult = "miss"
            /\ (cWasActive /\ d + 1 <= RadiusA + cRadB) => cResult = "hit"
            /\ (cResult = "hit") <=> swapped

\* C9, witness: an active sphere touching the other one exactly was checked
\* and reported no hit.
C9_TouchingChecked ==
    /\ cResult = "miss"
    /\ cWasActive
    /\ distanceTo(cPosA, cPosB) = RadiusA + cRadB

\* C3: once a session has ended and no session is active, the hit-test
\* source is null, the hit-test-requested flag is false and the stored
\* reference spaces are null.
C3_HandlesResetAfterEnd ==
    (session = 0 /\ sessionsStarted > 0) =>
        /\ hitTestSource = 0
        /\ ~hitTestSourceRequested
        /\ xrRefSpace = 0
        /\ arViewerSpace = 0

\* C4: the hit-test source held is one of the session that is active, and a
\* frame gives getHitTestResults only a source of the session it runs in.
C4_SourceOfOwnSession ==
    /\ hitTestSource # 0 => hitTestSource = session
    /\ (gameOp = "render" /\ polled # 0) => polled = session

\* C6: in part_002, the variant with MAX_PARTY_ELEMENTS, partyElements never
\* holds more than MAX_PARTY_ELEMENTS elements.
C6_PartyElementsBounded ==
    app = "party2" => Len(partyElements) <= MAX_PARTY_ELEMENTS

\* C10: in part_002 and part_003 a start action issues at most two session
\* requests; a failed first request is followed by exactly one further
\* request; handleARSessionError surfaces the failure only after that retry
\* has failed as well, and then the non-AR mode is offered.
C10_OneRetryThenSurface ==
    app \in {"party2", "party3"} =>
        /\ requestsIssued <= 2
        /\ (failures >= 1 /\ ~retryTimer) => requestsIssued = 2
        /\ surfaced => failures = 2
        /\ failures = 2 => (surfaced /\ offered)

\* C11: a hit-test query that throws, returns a hit without a pose or returns
\* no hit leaves the reticle hidden for that frame, and the party-element
\* animation and the render call of the same frame still run.
C11_FailedQueryKeepsFrame ==
    (gameOp = "render" /\ tick.query \in {"throws", "nopose", "empty"}) =>
        /\ ~reticleVisible
        /\ tick.animated
        /\ tick.rendered

\* C12: a select in AR mode under the hit-test policy adds one element, at the
\* reticle's pose scaled by 0.5, when the reticle is visible, and adds
\* nothing when it is not; under the heuristic policy a select without a
\* visible reticle adds one element 1.5 units in front of the camera at
\* height max(0.5, cameraY - 0.3).
C12_PlacementPolicy ==
    gameOp = "onSelect" =>
        /\ (~placed.heuristic /\ placed.reticle) =>
               /\ Len(partyElements) = placed.count0 + 1
               /\ placed.at = "reticle"
               /\ placed.scale = 5
        /\ (~placed.heuristic /\ ~placed.reticle) =>
               /\ partyElements = SubSeq(partyElements, 1, placed.count0)
               /\ Len(partyElements) = placed.count0
               /\ placed.at = "nowhere"
        /\ (placed.heuristic /\ ~placed.reticle) =>
               /\ Len(partyElements) = placed.count0 + 1
               /\ placed.at = "front"
               /\ placed.distance = 15
               /\ placed.height >= 5
               /\ placed.height >= placed.cameraY - 3
               /\ placed.height \in {5, placed.cameraY - 3}

\* a select with the reticle visible has placed an element at the reticle
C12_PlacedAtReticle ==
    /\ gameOp = "onSelect"
    /\ placed.at = "reticle"
    /\ Len(partyElements) = placed.count0 + 1

\* C13: within an AR session of the party environment the audio side effect
\* is triggered by the first successful placement of the session and by no
\* later one, so it fires at most once per session.
C13_AudioOncePerSession ==
    (app \in PartyApps /\ session # 0) =>
        /\ Cardinality(audioBy) <= 1
        /\ sessionPlacements = 0 => audioBy = {}
        /\ sessionPlacements >= 1 => audioBy = {1}

\* C14: in every AR session the first frame issues the request for the
\* hit-test source; no request is issued for a session while one of its
\* requests is in flight or its source is held; and from the start of the
\* session until a frame has got a hit the reticle is not visible.
C14_FirstFrameRequests ==
    (tick = NoTick /\ tick' # NoTick) => (issued' = session /\ session # 0)

C14_NoSecondRequest ==
    issued' # 0 => (issued' \notin hitTestPending /\ hitTestSource # issued')

C14_ReticleHiddenUntilHit ==
    (app \in PartyApps /\ session # 0 /\ ~tick.hitSeen) => ~reticleVisible

C14_LazyHitTestRequest ==
    /\ [][C14_FirstFrameRequests]_vars
    /\ [][C14_NoSecondRequest]_vars
    /\ []C14_ReticleHiddenUntilHit


\* C15, reaching Active: a session is installed only by a step that starts
\* with a requestSession call outstanding
C15_ActiveViaRequesting ==
    (session = 0 /\ session' # 0) => requestPending

\* C15, leaving Active: the session field is cleared by the 'end' handler only
C15_InactiveViaEnding ==
    (session # 0 /\ session' = 0) => gameOp' = "onXRSessionEnded"

\* C15, leaving Requesting: an outstanding request goes away by installing
\* its session or by being rejected
C15_RequestingLeaves ==
    (requestPending /\ ~requestPending') =>
        \/ session' # 0 /\ gameOp' = "onXRSessionStarted"
        \/ session' = 0 /\ gameOp' = "rejected"

\* C15, start action: a handler that called requestSession did so in state
\* Inactive
C15_StartOnlyWhenInactive ==
    requestedIn \in {"none", "Inactive"}

\* C15: the session moves Inactive -> Requesting -> Active -> Ending ->
\* Inactive, or Requesting -> Inactive on a rejected request, and a start
\* action issues a session request only when the state is Inactive
C15_SessionStateMachine ==
    /\ [][C15_ActiveViaRequesting]_vars
    /\ [][C15_InactiveViaEnding]_vars
    /\ [][C15_RequestingLeaves]_vars
    /\ []C15_StartOnlyWhenInactive


\* the throttle of manageMemory lets a call at the current time run
C16_CleanupRuns ==
    \/ lastCleanupTime = 0
    \/ (now - StartTime) - lastCleanupTime > ELEMENT_CLEANUP_INTERVAL

\* C16: a manageMemory call that runs its cleanup on N > MAX_PARTY_ELEMENTS
\* elements removes exactly the N - MAX_PARTY_ELEMENTS elements with the
\* smallest createdAt (equal createdAt: the ones pushed first), takes their
\* meshes out of the scene and leaves the other MAX_PARTY_ELEMENTS elements
\* in age order; with N <= MAX_PARTY_ELEMENTS it leaves the list and the
\* scene as they were
C16_EvictsOldest ==
    (gameOp' = "manageMemory" /\ C16_CleanupRuns) =>
        LET old == partyElements
            new == partyElements'
            removed == Range(old) \ Range(new)
            pos(e) == CHOOSE i \in DOMAIN old : old[i] = e
            Older(a, b) == \/ a.createdAt < b.createdAt
                           \/ /\ a.createdAt = b.createdAt
                              /\ pos(a) < pos(b)
        IN  IF Len(old) > MAX_PARTY_ELEMENTS
              THEN /\ Len(new) = MAX_PARTY_ELEMENTS
                   /\ Range(new) \subseteq Range(old)
                   /\ Cardinality(removed) = Len(old) - MAX_PARTY_ELEMENTS
                   /\ \A r \in removed : \A k \in Range(new) : Older(r, k)
                   /\ \A i, j \in DOMAIN new : i < j => Older(new[i], new[j])
                   /\ partyScene' = partyScene \ {r.id : r \in removed}
              ELSE /\ new = old
                   /\ partyScene' = partyScene

C16_FifoEviction == [][C16_EvictsOldest]_vars

\* a cleanup has cut a list of MAX_PARTY_ELEMENTS + 2 elements down to
\* MAX_PARTY_ELEMENTS and put a later push before an earlier one
C16_TwoEvictedAndSorted ==
    /\ gameOp = "manageMemory"
    /\ Len(partyElements) = MAX_PARTY_ELEMENTS
    /\ Cardinality(partyScene) = MAX_PARTY_ELEMENTS
    /\ elementsCreated = MAX_PARTY_ELEMENTS + 2
    /\ \E i, j \in DOMAIN partyElements :
         /\ i < j
         /\ partyElements[i].id > partyElements[j].id
         /\ partyElements[i].createdAt < partyElements[j].createdAt


\* the enemies a spawnEnemyWave() step appended
C17_Added == SubSeq(enemies', Len(enemies) + 1, Len(enemies'))

\* C17 as stated: spawnEnemyWave takes the pattern of index level mod 3;
\* a successful spawn adds min(pattern length, enemiesPerWave) enemies and
\* one to enemyWaveCount, a refused one (list at maxEnemies) changes neither
C17_SpawnByLevel ==
    gameOp' = "spawnEnemyWave" =>
        IF Len(enemies) >= maxEnemies
          THEN /\ enemies' = enemies
               /\ enemyWaveCount' = enemyWaveCount
          ELSE /\ SubSeq(enemies', 1, Len(enemies)) = enemies
               /\ Len(C17_Added)
                    = Min2(PatternLengths[(level % 3) + 1], enemiesPerWave)
               /\ \A k \in DOMAIN C17_Added : C17_Added[k].pattern = level % 3
               /\ enemyWaveCount' = enemyWaveCount + 1

C17_SpawnByLevelMinusOne ==
    gameOp' = "spawnEnemyWave" =>
        IF Len(enemies) >= maxEnemies
          THEN /\ enemies' = enemies
               /\ enemyWaveCount' = enemyWaveCount
          ELSE /\ SubSeq(enemies', 1, Len(enemies)) = enemies
               /\ Len(C17_Added)
                    = Min2(PatternLengths[((level - 1) % 3) + 1],
                           enemiesPerWave)
               /\ \A k \in DOMAIN C17_Added :
                    C17_Added[k].pattern = (level - 1) % 3
               /\ enemyWaveCount' = enemyWaveCount + 1

C18_Rank(step) ==
    CASE step = "physics" -> 1
      [] step = "hitTest" -> 2
      [] step = "spawn" -> 3
      [] step = "update" -> 4
      [] step = "collisions" -> 5
      [] step = "cleanup" -> 6
      [] step = "render" -> 7
      [] OTHER -> 0

\* C18, order: the steps of a frame of a running game that the claim names
\* come in its order: physics step, hit-test polling, spawn triggers, entity
\* update, collision checks, cleanup sweep, render
C18_StepsInOrder ==
    frameSteps.running =>
        \A i, j \in DOMAIN frameSteps.steps :
            (/\ i < j
             /\ C18_Rank(frameSteps.steps[i]) # 0
             /\ C18_Rank(frameSteps.steps[j]) # 0)
                => C18_Rank(frameSteps.steps[i]) < C18_Rank(frameSteps.steps[j])

\* C18, render: a frame of a running game ends with its one render call
C18_EndsWithOneRender ==
    frameSteps.running =>
        /\ frameSteps.steps # <<>>
        /\ frameSteps.steps[Len(frameSteps.steps)] = "render"
        /\ Cardinality({i \in DOMAIN frameSteps.steps :
                          frameSteps.steps[i] = "render"}) = 1

\* C18: every frame of a running game performs its steps in the order
\* physics step, hit-test polling, spawn triggers, entity update, collision
\* checks, cleanup sweep, and ends with exactly one render call
C18_FrameOrder ==
    /\ C18_StepsInOrder
    /\ C18_EndsWithOneRender


\* C20, dead enemies: after a checkCollisions pass of the Galaga game no
\* enemy with health <= 0 is in the enemies list
C20_NoDeadEnemyLeft ==
    (app = "galaga" /\ pass.ran) =>
        \A i \in DOMAIN enemies : ~isDead(enemies[i])

\* C20, live enemies: every enemy the pass left with health > 0 is still in
\* the enemies list
C20_LiveEnemiesKept ==
    (app = "galaga" /\ pass.ran) => pass.alive \subseteq Ids(enemies)

\* C20: after every checkCollisions pass of the Galaga game, every enemy
\* whose health is <= 0 has been removed from the enemies list and every
\* enemy whose health is > 0 is still in it, whatever the order of the hits
\* and also when two projectiles hit the same enemy
C20_ExactlyDeadRemoved ==
    /\ C20_NoDeadEnemyLeft
    /\ C20_LiveEnemiesKept


\* C21: a checkCollisions pass of the Galaga game at time now removes from
\* the projectiles list exactly the projectiles that hit something or have
\* expired, each of them once, keeps every other projectile, and its
\* projectile removal does not throw; a projectile that both hit and
\* expired is one of those removed
C21_ExactlyHitOrExpiredRemoved ==
    (app = "galaga" /\ pass.ran) =>
        /\ ~pass.pThrew
        /\ Ids(projectiles) =
             {p.id : p \in {q \in Range(pass.before) :
                              /\ q.id \notin pass.hits
                              /\ ~hasExpired(q, now)}}


\* C22, start: onXRSessionStarted puts every session at level 1
C22_SessionStartsAtLevelOne ==
    gameOp' = "onXRSessionStarted" => level' = 1

\* C22, advance: the level changes only at a session start or by going up
\* by exactly 1, and it goes up only when an enemy was spawned since the
\* session started or the level last went up and the enemies list is empty
\* again
C22_AdvanceOnClearedWave ==
    (app = "galaga" /\ level' # level) =>
        \/ gameOp' = "onXRSessionStarted"
        \/ /\ level' = level + 1
           /\ spawnedSince
           /\ gameOp' = "animate"

\* C22: each session starts at level 1 and the level goes up, by exactly 1,
\* only when a wave spawned in the current game has been destroyed, in the
\* first session and in every later one
C22_LevelOnlyOnClearedWave ==
    /\ [][C22_SessionStartsAtLevelOne]_vars
    /\ [][C22_AdvanceOnClearedWave]_vars


\* C23, state: while the Galaga App has no session the enemies list is
\* empty and player is null
C23_NothingAliveWithoutSession ==
    (app = "galaga" /\ session = 0) => (enemies = <<>> /\ player = 0)

\* C23, steps: a step that starts and ends without a session creates no
\* enemy and no player
C23_NothingCreatedWithoutSession ==
    (app = "galaga" /\ session = 0 /\ session' = 0) =>
        /\ enemiesCreated' = enemiesCreated
        /\ playersCreated' = playersCreated

\* C23: from onXRSessionEnded until the next onXRSessionStarted no enemy and
\* no player is created: a spawn timer or a room-scan completion that fires
\* after the session has ended leaves the enemies list empty and player null
C23_NoSpawnAfterSessionEnd ==
    /\ []C23_NothingAliveWithoutSession
    /\ [][C23_NothingCreatedWithoutSession]_vars


\* C24: enemies.length <= maxEnemies is kept by every step of the Galaga
\* game: no wave spawn, initial, periodic or after a level advance, takes a
\* list of at most maxEnemies enemies beyond maxEnemies
C24_MaxEnemiesKept ==
    (app = "galaga" /\ Len(enemies) <= maxEnemies) =>
        Len(enemies') <= maxEnemies

C24_EnemiesBounded == [][C24_MaxEnemiesKept]_vars


\* C25, lives: lives is never below 0
C25_LivesNotNegative ==
    app = "galaga" => lives >= 0

\* C25, game over: no step runs gameOver() more than once; a game that is
\* over runs no further checkCollisions pass, so this is once per game
C25_OneGameOverPerStep ==
    app = "galaga" => gameOvers' <= gameOvers + 1

\* C25: lives never drops below 0 and gameOver() runs at most once per
\* game, also when several enemy projectiles hit the player in the same
\* checkCollisions pass
C25_LivesAndGameOverOnce ==
    /\ []C25_LivesNotNegative
    /\ [][C25_OneGameOverPerStep]_vars


\* C26, one list: no marble is twice in a list or in both lists, and every
\* marble createNewMarble made is in one of them
C26_InExactlyOneList ==
    /\ Cardinality(Range(marbles)) = Len(marbles)
    /\ Cardinality(Range(inactiveMarbles)) = Len(inactiveMarbles)
    /\ Range(marbles) \cap Range(inactiveMarbles) = {}
    /\ Range(marbles) \cup Range(inactiveMarbles) = 1..allocated

\* C26, body and mesh: the bodies in the physics world and the visible
\* meshes of the scene are those of the active list
C26_ActiveIffInWorldAndVisible ==
    /\ physicsWorld = Range(marbles)
    /\ scene \ hidden = Range(marbles)

\* C26: in the pooled MarbleShooter, after any sequence of shoot() and
\* cleanupMarbles() calls every marble is in exactly one of the active and
\* inactive lists, the two lists together hold at most maxMarbles marbles,
\* and a marble's body is in the physics world and its mesh visible exactly
\* when the marble is in the active list
C26_PoolPartition ==
    (app = "none" /\ variant = "pooled") =>
        /\ C26_InExactlyOneList
        /\ Len(marbles) + Len(inactiveMarbles) <= maxMarbles
        /\ C26_ActiveIffInWorldAndVisible

\* C26, its case: a pool grown to maxMarbles marbles (so the prewarmed
\* marbles were all reused and new ones made), then a cleanup that retired
\* marbles and a shot that reused one of them, with marbles in both lists
C26_PoolSplitAfterCleanupAndShot ==
    /\ app = "none" /\ variant = "pooled"
    /\ lastOp = "shoot"
    /\ allocated > prewarmCount
    /\ Len(marbles) > 0 /\ Len(inactiveMarbles) > 0
    /\ Len(marbles) + Len(inactiveMarbles) = maxMarbles


\* C27, one shoot action: a select that comes less than playerFireRate after
\* the previous accepted shot (player.lastFireTime) creates no projectile
C27_RefusedShotCreatesNothing ==
    (app = "galaga" /\ gameOp' = "onSelect" /\ now - playerLastFire < playerFireRate) =>
        /\ projectilesCreated' = projectilesCreated
        /\ projectiles' = projectiles

\* C27: player fire is rate-limited: a shoot action less than the fire-rate
\* interval (300 ms) after the previous accepted shot creates no projectile,
\* so no two player projectiles are created less than 300 ms apart
C27_FireRateLimited == [][C27_RefusedShotCreatesNothing]_vars


\* C28, one step: a step that starts with the invulnerable flag set takes no
\* life, and a step that starts without it takes at most one, the hit that
\* sets the flag: every later enemy projectile of the same checkCollisions
\* pass meets the player with the flag set
C28_InvulnerableKeepsLives ==
    app = "galaga" => lives' >= lives - (IF invulnerable THEN 0 ELSE 1)

\* C28: after the player has been hit the player is invulnerable for 2 s: an
\* enemy projectile that collides with the player while the invulnerable
\* flag is set does not reduce lives
C28_NoHitWhileInvulnerable == [][C28_InvulnerableKeepsLives]_vars

====
